---- MODULE Spec2Model ----
(***************************************************************************)
(* The worktree / branch / PR lifecycle of claude-issue-solver:            *)
(* discovery of issue worktrees (clean.ts getIssueWorktrees), status       *)
(* classification (getStatusLabel) and the per-worktree teardown of        *)
(* clean, clean --all, clean --merged and merge.                           *)
(*                                                                         *)
(* Names are modelled by their structure.  A path is [kind, n, s]:         *)
(*   kind "conv"  the sibling directory {projectName}-issue-{n}-{slug s}   *)
(*   kind "pre"   a sibling directory {projectName}-issue-{no digits}      *)
(*   kind "odd"   a directory whose path has no {projectName}-issue- part  *)
(*   kind "root"  the main working tree (projectRoot)                      *)
(* A branch is [kind, n, s]: "issue" is issue-{n}-{slug s}, "other" is a   *)
(* branch outside the convention, "main" the base branch, "" is the empty  *)
(* string of an orphaned folder's record.                                  *)
(***************************************************************************)
EXTENDS Integers, Sequences, FiniteSets, TLC

VARIABLES
  registry,   \* git's worktree registrations: path -> head of that worktree
  dirs,       \* the directories that exist on disk
  branches,   \* the local branches (refs/heads/*)
  wts,        \* the Worktree[] the running command discovered
  pc,         \* position of the running command ("idle": none is running)
  wstat,      \* the WorktreeWithStatus[] the running command fetched
  choices,    \* the checkbox choices clean --all shows
  targets,    \* the worktrees the running command tears down, in order
  idx,        \* index in targets of the worktree being torn down
  calls,      \* the external calls the command has attempted, in order
  reports,    \* the spinner result per torn-down worktree
  result,     \* the running (or last) command and how it ended
  prs,        \* the host's pull requests for the issue branch of the runner
  runner,     \* the runner script: its two processes and the branch's commits
  app         \* a function of the naming or option layer applied: arguments, value

git == <<registry, dirs, branches>>

run == <<wstat, choices, targets, idx, calls, reports, result>>

\* what no command touches
script == <<prs, runner, app>>

vars == <<registry, dirs, branches, wts, pc, wstat, choices, targets, idx, calls, reports,
         result, prs, runner, app>>

\* issue numbers of the teardown model
MaxIssue == 2

Issues == 1..MaxIssue

\* issue numbers of the discovery model
MaxDiscIssue == 3

\* the commits the assistant makes in one runner session
MaxCommits == 2

DiscIssues == 1..MaxDiscIssue

\* ---------------------------------------------------------------- names

ConvPath(i, s) == [kind |-> "conv", n |-> i, s |-> s]
PrePath == [kind |-> "pre", n |-> 0, s |-> 0]
OddPath == [kind |-> "odd", n |-> 0, s |-> 0]
RootPath == [kind |-> "root", n |-> 0, s |-> 0]

IssueBranch(i, s) == [kind |-> "issue", n |-> i, s |-> s]
OtherBranch == [kind |-> "other", n |-> 0, s |-> 0]
MainBranch == [kind |-> "main", n |-> 0, s |-> 0]
NoBranch == [kind |-> "", n |-> 0, s |-> 0]

\* heads of a registration: none (not registered), detached, or a branch
NoReg == [kind |-> "none", branch |-> NoBranch]
Detached == [kind |-> "detached", branch |-> NoBranch]
OnBranch(b) == [kind |-> "branch", branch |-> b]

\* currentBranch.match(/^issue-(\d+)-/)
BranchIssueMatch(b) == b.kind = "issue"

\* currentPath.includes(`${projectName}-issue-`)
PathIncludesPattern(p) == p.kind \in {"conv", "pre"}

\* entry.name.startsWith(`${projectName}-issue-`)
NameStartsWithPattern(p) == p.kind \in {"conv", "pre"}

\* entry.name.match(new RegExp(`${projectName}-issue-(\\d+)-`))
NameIssueMatch(p) == p.kind = "conv"

\* ------------------------------------------------------------ discovery

\* the order in which git lists the linked worktrees and readdir the entries
PathLess(p, q) ==
  LET rank(k) == CASE k = "root" -> 0 [] k = "conv" -> 1 [] k = "pre" -> 2 [] OTHER -> 3
  IN  \/ rank(p.kind) < rank(q.kind)
      \/ rank(p.kind) = rank(q.kind) /\ p.n < q.n
      \/ rank(p.kind) = rank(q.kind) /\ p.n = q.n /\ p.s < q.s

SortPaths(S) ==
  [k \in 1..Cardinality(S) |->
     CHOOSE p \in S : Cardinality({q \in S : PathLess(q, p)}) = k - 1]

Line(tag, p, b) == [tag |-> tag, path |-> p, branch |-> b]

\* the entry `git worktree list --porcelain` prints for one registration
PorcelainEntry(p, head) ==
  <<Line("worktree", p, NoBranch), Line("HEAD", p, NoBranch)>>
  \o (IF head.kind = "branch"
      THEN <<Line("branch", p, head.branch)>>
      ELSE <<Line("detached", p, NoBranch)>>)
  \o <<Line("", p, NoBranch)>>

RECURSIVE PorcelainOf(_, _, _)
PorcelainOf(reg, ps, k) ==
  IF k > Len(ps) THEN <<>>
  ELSE PorcelainEntry(ps[k], reg[ps[k]]) \o PorcelainOf(reg, ps, k + 1)

\* exec('git worktree list --porcelain')
WorktreeListPorcelain(reg) ==
  PorcelainOf(reg, SortPaths({p \in DOMAIN reg : reg[p].kind # "none"}), 1)

Worktree(p, b, n) == [path |-> p, branch |-> b, issueNumber |-> n]

\* the condition under which a branch line adds a record
IsIssueEntry(path, branch) ==
  BranchIssueMatch(branch) /\ PathIncludesPattern(path)

\* the loop over the lines of the listing, with currentPath / currentBranch
RECURSIVE ParsePorcelain(_, _, _, _, _)
ParsePorcelain(lines, k, currentPath, currentBranch, acc) ==
  IF k > Len(lines) THEN acc
  ELSE LET line == lines[k] IN
       IF line.tag = "worktree"
       THEN ParsePorcelain(lines, k + 1, line.path, currentBranch, acc)
       ELSE IF line.tag = "branch"
       THEN ParsePorcelain(lines, k + 1, currentPath, line.branch,
              IF IsIssueEntry(currentPath, line.branch)
              THEN Append(acc, Worktree(currentPath, line.branch, line.branch.n))
              ELSE acc)
       ELSE ParsePorcelain(lines, k + 1, currentPath, currentBranch, acc)

FoundPaths(ws) == {ws[k].path : k \in 1..Len(ws)}

\* whether the directory scan treats a folder as already found
AlreadyFoundBroken(folderPath, found) == FALSE

AlreadyFound(folderPath, found) == folderPath \in found

\* the scan of the parent directory for folders that were not found in the listing
RECURSIVE ScanFolders(_, _, _, _)
ScanFolders(entries, k, found, acc) ==
  IF k > Len(entries) THEN acc
  ELSE LET e == entries[k] IN
       IF NameStartsWithPattern(e) /\ ~AlreadyFound(e, found) /\ NameIssueMatch(e)
       THEN ScanFolders(entries, k + 1, found, Append(acc, Worktree(e, NoBranch, e.n)))
       ELSE ScanFolders(entries, k + 1, found, acc)

\* fs.readdirSync(parentDir): the sibling directories, the project root among them
ReadParentDir(ds) == SortPaths({p \in ds : p.kind # "odd"})

getIssueWorktrees(reg, ds) ==
  LET listed == ParsePorcelain(WorktreeListPorcelain(reg), 1, RootPath, NoBranch, <<>>)
  IN  listed \o ScanFolders(ReadParentDir(ds), 1, FoundPaths(listed), <<>>)

\* ------------------------------------------------- well-formed git states

BranchesOf(reg) == {reg[p].branch : p \in {q \in DOMAIN reg : reg[q].kind = "branch"}}

\* git checks a branch out in at most one worktree, and a checked-out branch exists
RegistryConsistent(reg) ==
  /\ reg[RootPath] = OnBranch(MainBranch)
  /\ \A p, q \in DOMAIN reg :
       (p # q /\ reg[p].kind = "branch") => reg[p] # reg[q]

GitConsistent(reg, ds, brs) ==
  /\ RegistryConsistent(reg)
  /\ RootPath \in ds
  /\ BranchesOf(reg) \subseteq brs

Result(name, issue, outcome, again) ==
  [name |-> name, issue |-> issue, outcome |-> outcome, again |-> again]

NoCommit == 0 - 1

\* no runner script is running
NoRunner ==
  [head |-> 0, pushed |-> 0, created |-> 0,
   main |-> [pc |-> "none", existing |-> FALSE],
   watcher |-> [pc |-> "none", killed |-> FALSE, last |-> NoCommit, cur |-> NoCommit,
                existing |-> FALSE]]

\* no function is being applied
NoApp == [fn |-> "none", args |-> <<>>, value |-> <<>>, done |-> FALSE]

ScriptInit ==
  /\ prs = <<>>
  /\ runner = NoRunner
  /\ app = NoApp

RunInit ==
  /\ ScriptInit
  /\ wstat = <<>>
  /\ choices = <<>>
  /\ targets = <<>>
  /\ idx = 0
  /\ calls = <<>>
  /\ reports = <<>>
  /\ result = Result("none", 0, "none", FALSE)

\* ============================ discovery on its own: every registry and scan

DiscPaths == {ConvPath(i, 1) : i \in DiscIssues} \cup {PrePath, OddPath}

DiscBranches == {IssueBranch(i, 1) : i \in DiscIssues} \cup {OtherBranch}

DiscHeads == {NoReg, Detached} \cup {OnBranch(b) : b \in DiscBranches}

\* the registries over the paths ps in which every branch of free is checked
\* out in at most one worktree and the main working tree is on the base branch
RECURSIVE DiscRegistries(_, _)
DiscRegistries(ps, free) ==
  IF ps = {} THEN {RootPath :> OnBranch(MainBranch)}
  ELSE LET p == CHOOSE q \in ps : TRUE
       IN  UNION {{(p :> h) @@ r : r \in DiscRegistries(ps \ {p}, free \ {h.branch})} :
                    h \in {NoReg, Detached} \cup {OnBranch(b) : b \in free}}

InitDisc ==
  /\ registry \in DiscRegistries(DiscPaths, DiscBranches)
  /\ \A p \in DiscPaths : registry[p] \in DiscHeads
  \* a worktree outside the parent directory is listed with its branch; only
  \* an issue branch there can match, and readdirSync never returns it
  /\ registry[OddPath] \in {NoReg} \cup {OnBranch(IssueBranch(i, 1)) : i \in DiscIssues}
  /\ dirs \in {ds \cup {RootPath} : ds \in SUBSET (DiscPaths \ {OddPath})}
  /\ branches = BranchesOf(registry)
  /\ GitConsistent(registry, dirs, branches)
  /\ wts = <<>>
  /\ pc = "idle"
  /\ RunInit

Discover ==
  /\ pc = "idle"
  /\ wts' = getIssueWorktrees(registry, dirs)
  /\ pc' = "discovered"
  /\ UNCHANGED <<git, run>>
  /\ UNCHANGED script

NextDisc == Discover

SpecDisc == InitDisc /\ [][NextDisc]_vars

\* the records of the discovered list that carry path p
RecordsAt(p) == {k \in 1..Len(wts) : wts[k].path = p}

\* a registration the listing reports on an issue branch, at a path of the tool
RegisteredIssueWorktree(p) ==
  /\ registry[p].kind = "branch"
  /\ BranchIssueMatch(registry[p].branch)
  /\ PathIncludesPattern(p)

\* a sibling directory named {projectName}-issue-{number}-...
ConventionNamedDir(p) == p \in dirs /\ p.kind = "conv"

\* C1: discovery returns exactly one record, with its branch, per registered
\* issue worktree, exactly one record with empty branch per convention-named
\* sibling directory that is not among them, and nothing else.
C1_DiscoveryReconciliation ==
  pc = "discovered" =>
    /\ \A p \in DOMAIN registry :
         RegisteredIssueWorktree(p) =>
           /\ Cardinality(RecordsAt(p)) = 1
           /\ \A k \in RecordsAt(p) :
                /\ wts[k].branch = registry[p].branch
                /\ wts[k].issueNumber = registry[p].branch.n
    /\ \A p \in DOMAIN registry :
         (ConventionNamedDir(p) /\ ~RegisteredIssueWorktree(p)) =>
           /\ Cardinality(RecordsAt(p)) = 1
           /\ \A k \in RecordsAt(p) :
                wts[k].branch = NoBranch /\ wts[k].issueNumber = p.n
    /\ \A p \in DOMAIN registry :
         (~ConventionNamedDir(p) /\ ~RegisteredIssueWorktree(p)) => RecordsAt(p) = {}
    /\ \A k \in 1..Len(wts) : wts[k].path \in DOMAIN registry

\* registry {A, B}, directory scan {A, B, C}: the result is A, B with their
\* branches and C without
C1_Witness ==
  /\ pc = "discovered"
  /\ Len(wts) = 3
  /\ registry[ConvPath(1, 1)] = OnBranch(IssueBranch(1, 1))
  /\ registry[ConvPath(2, 1)] = OnBranch(IssueBranch(2, 1))
  /\ registry[ConvPath(3, 1)] = NoReg
  /\ {ConvPath(1, 1), ConvPath(2, 1), ConvPath(3, 1)} \subseteq dirs
  /\ wts[3] = Worktree(ConvPath(3, 1), NoBranch, 3)

\* C2: a discovered record has an empty branch exactly when its directory has
\* no git worktree registration; a directory that is still registered,
\* whatever its head, is never reported with an empty branch.
C2_EmptyBranchIffOrphaned ==
  pc = "discovered" =>
    \A k \in 1..Len(wts) :
      (wts[k].branch = NoBranch) <=> (registry[wts[k].path] = NoReg)

\* ================================================ git and the file system

GitState(reg, ds, brs, ok) == [registry |-> reg, dirs |-> ds, branches |-> brs, ok |-> ok]

\* the states `git worktree remove "<p>" --force` can leave: the worktree removed;
\* the registration removed but the directory left (its deletion failed); or,
\* refused (a locked worktree, a path that is no working tree), nothing changed.
\* ok: the call did not throw.
WorktreeRemove(reg, ds, brs, p, mayFail) ==
  IF reg[p].kind = "none" THEN {GitState(reg, ds, brs, FALSE)}
  ELSE {GitState([reg EXCEPT ![p] = NoReg], ds \ {p}, brs, TRUE)}
       \cup (IF mayFail
             THEN {GitState([reg EXCEPT ![p] = NoReg], ds, brs, FALSE),
                   GitState(reg, ds, brs, FALSE)}
             ELSE {})

\* `rm -rf "<p>"` and its fallbacks: the directory is gone, or it could not be removed
ForceDelete(reg, ds, brs, p, mayFail) ==
  {GitState(reg, ds \ {p}, brs, TRUE)}
  \cup (IF mayFail THEN {GitState(reg, ds, brs, FALSE)} ELSE {})

\* `git worktree prune`: drops every registration whose directory is missing
WorktreePrune(reg, ds, brs, mayFail) ==
  {GitState([p \in DOMAIN reg |-> IF p \notin ds /\ p # RootPath THEN NoReg ELSE reg[p]],
            ds, brs, TRUE)}
  \cup (IF mayFail THEN {GitState(reg, ds, brs, FALSE)} ELSE {})

\* `git branch -D "<b>"`: git refuses a branch that does not exist and a branch
\* that a registered worktree (also a stale one) has checked out
BranchDelete(reg, ds, brs, b, mayFail) ==
  IF b \in brs /\ \A p \in DOMAIN reg : reg[p] # OnBranch(b)
  THEN {GitState(reg, ds, brs \ {b}, TRUE)}
       \cup (IF mayFail THEN {GitState(reg, ds, brs, FALSE)} ELSE {})
  ELSE {GitState(reg, ds, brs, FALSE)}

Apply(o) ==
  /\ registry' = o.registry
  /\ dirs' = o.dirs
  /\ branches' = o.branches

Call(op, p) == [op |-> op, path |-> p]

\* the statement that follows statement cur in a teardown body
StepAfter(steps, cur) ==
  steps[(CHOOSE k \in 1..Len(steps) : steps[k] = cur) + 1]

\* ------------------------------------------------------------------ status

Null == "null"

IssueStates == {Null, "open", "closed"}

PRStates == {Null, "open", "closed", "merged"}

WithStatus(wt, is, pr) ==
  [path |-> wt.path, branch |-> wt.branch, issueNumber |-> wt.issueNumber,
   issueStatus |-> is, prStatus |-> pr]

\* the issue state consulted before the PR state
getStatusLabelBroken(wt) ==
  IF wt.branch = NoBranch THEN "orphaned folder"
  ELSE IF wt.issueStatus = "closed" THEN "Issue closed"
  ELSE IF wt.issueStatus = "open" THEN "Issue open"
  ELSE IF wt.prStatus = "merged" THEN "PR merged"
  ELSE IF wt.prStatus = "open" THEN "PR open"
  ELSE IF wt.prStatus = "closed" THEN "PR closed"
  ELSE "Unknown"

getStatusLabel(wt) ==
  IF wt.branch = NoBranch THEN "orphaned folder"
  ELSE IF wt.prStatus = "merged" THEN "PR merged"
  ELSE IF wt.prStatus = "open" THEN "PR open"
  ELSE IF wt.prStatus = "closed" THEN "PR closed"
  ELSE IF wt.issueStatus = "closed" THEN "Issue closed"
  ELSE IF wt.issueStatus = "open" THEN "Issue open"
  ELSE "Unknown"

\* what the host can answer for one worktree: the issue status, and the PR status
\* of its branch, which is only queried when the branch is not empty
StatusesOf(wt) ==
  {WithStatus(wt, is, pr) : is \in IssueStates,
                            pr \in IF wt.branch # NoBranch THEN PRStates ELSE {Null}}

RECURSIVE FetchAll(_)
FetchAll(ws) ==
  IF ws = <<>> THEN {<<>>}
  ELSE {<<h>> \o t : h \in StatusesOf(Head(ws)), t \in FetchAll(Tail(ws))}

\* ------------------------------------------------- clean <issue> (cleanCommand)

NoPath == [kind |-> "", n |-> 0, s |-> 0]

\* the lines of `git branch`: "* " marks the current branch, "+ " a branch that is
\* checked out in another worktree
BranchLine(reg, b) ==
  [mark |-> IF reg[RootPath] = OnBranch(b) THEN "* "
            ELSE IF \E p \in DOMAIN reg : reg[p] = OnBranch(b) THEN "+ " ELSE "",
   name |-> b]

BranchLess(a, b) ==
  LET rank(k) == CASE k = "issue" -> 0 [] k = "main" -> 1 [] OTHER -> 2
  IN  \/ rank(a.kind) < rank(b.kind)
      \/ rank(a.kind) = rank(b.kind) /\ a.n < b.n
      \/ rank(a.kind) = rank(b.kind) /\ a.n = b.n /\ a.s < b.s

RECURSIVE SortBranches(_)
SortBranches(S) ==
  IF S = {} THEN <<>>
  ELSE LET m == CHOOSE b \in S : \A c \in S \ {b} : BranchLess(b, c)
       IN  <<m>> \o SortBranches(S \ {m})

\* startsWith('issue-') in place of the pattern with the issue number
MatchingBranchBroken(reg, brs, i) ==
  LET sorted == SortBranches(brs)
      hits == {k \in 1..Len(sorted) :
                 /\ BranchLine(reg, sorted[k]).mark # "+ "
                 /\ sorted[k].kind = "issue"}
  IN  IF hits = {} THEN NoBranch
      ELSE sorted[CHOOSE k \in hits : \A j \in hits : k <= j]

\* branches.find((b) => b.startsWith(`issue-${issueNumber}-`)) over the lines of
\* `git branch` after trim() and replace('* ', ''); NoBranch: undefined
MatchingBranch(reg, brs, i) ==
  LET sorted == SortBranches(brs)
      hits == {k \in 1..Len(sorted) :
                 /\ BranchLine(reg, sorted[k]).mark # "+ "
                 /\ sorted[k].kind = "issue"
                 /\ sorted[k].n = i}
  IN  IF hits = {} THEN NoBranch
      ELSE sorted[CHOOSE k \in hits : \A j \in hits : k <= j]

\* the first record whatever its issue number
FindByIssueBroken(ws, i) == IF Len(ws) > 0 THEN 1 ELSE 0

\* worktrees.find((wt) => wt.issueNumber === String(issueNumber)); 0: undefined
FindByIssue(ws, i) ==
  LET hits == {k \in 1..Len(ws) : ws[k].issueNumber = i}
  IN  IF hits = {} THEN 0 ELSE CHOOSE k \in hits : \A j \in hits : k <= j

\* nothing of issue i is left: no directory, no registration, no local branch
IssueGone(i) ==
  /\ \A p \in dirs : ~(p.kind = "conv" /\ p.n = i)
  /\ \A p \in DOMAIN registry :
       /\ (p.kind = "conv" /\ p.n = i) => registry[p] = NoReg
       /\ ~(registry[p].kind = "branch" /\ registry[p].branch.kind = "issue"
            /\ registry[p].branch.n = i)
  /\ \A b \in branches : ~(b.kind = "issue" /\ b.n = i)

\* the order of the teardown statements of cleanCommand
CleanSteps ==
  <<"clean_close", "clean_remove", "clean_rm", "clean_prune", "clean_check", "clean_branch">>

CleanBegin(i) ==
  /\ pc = "idle"
  /\ \E ws \in {getIssueWorktrees(registry, dirs)} :
       LET k == FindByIssue(ws, i)
           mb == MatchingBranch(registry, branches, i)
           again == /\ result.name = "clean" /\ result.issue = i
                    /\ result.outcome = "complete" /\ IssueGone(i)
       IN  /\ wts' = ws
           /\ IF k = 0
              THEN /\ wstat' = <<>>
                   /\ IF mb = NoBranch
                      THEN /\ targets' = <<>>
                           /\ pc' = "done"
                           /\ result' = Result("clean", i, "notfound", again)
                      ELSE /\ targets' = <<Worktree(NoPath, mb, i)>>
                           /\ pc' = "clean_confirmBranch"
                           /\ result' = Result("clean", i, "running", again)
              ELSE /\ wstat' \in {<<w>> : w \in StatusesOf(ws[k])}
                   /\ targets' = <<ws[k]>>
                   /\ pc' = "clean_confirm"
                   /\ result' = Result("clean", i, "running", again)
  /\ idx' = 1
  /\ calls' = <<>>
  /\ reports' = <<>>
  /\ choices' = <<>>
  /\ UNCHANGED git
  /\ UNCHANGED script

\* the command returns: pc "done" is the moment of its return
Finish(outcome) ==
  /\ pc' = "done"
  /\ result' = [result EXCEPT !.outcome = outcome]

\* the branch-only cleanup: "Delete branch?"
CleanDeclineBranch ==
  /\ pc = "clean_confirmBranch"
  /\ Finish("cancelled")
  /\ UNCHANGED <<git, wts, wstat, choices, targets, idx, calls, reports>>
  /\ UNCHANGED script

CleanConfirmBranch(mayFail) ==
  /\ pc = "clean_confirmBranch"
  /\ \E o \in BranchDelete(registry, dirs, branches, targets[1].branch, mayFail) :
       /\ Apply(o)
       /\ calls' = Append(calls, Call("branch", NoPath))
       /\ Finish(IF o.ok THEN "branchDeleted" ELSE "couldNotDelete")
  /\ UNCHANGED <<wts, wstat, choices, targets, idx, reports>>
  /\ UNCHANGED script

\* "Remove worktree and delete branch?" / "Remove orphaned folder?"
CleanDecline ==
  /\ pc = "clean_confirm"
  /\ Finish("cancelled")
  /\ UNCHANGED <<git, wts, wstat, choices, targets, idx, calls, reports>>
  /\ UNCHANGED script

CleanConfirm ==
  /\ pc = "clean_confirm"
  /\ pc' = "clean_close"
  /\ UNCHANGED <<git, wts, wstat, choices, targets, idx, calls, reports, result>>
  /\ UNCHANGED script

CleanClose ==
  /\ pc = "clean_close"
  /\ calls' = Append(calls, Call("close", targets[1].path))
  /\ pc' = IF targets[1].path \in dirs
           THEN StepAfter(CleanSteps, "clean_close")
           ELSE "clean_branch"
  /\ UNCHANGED <<git, wts, wstat, choices, targets, idx, reports, result>>
  /\ UNCHANGED script

\* every worktree taken for a registered one
isOrphanedBroken(wt) == FALSE

\* const isOrphaned = !wt.branch
isOrphaned(wt) == wt.branch = NoBranch

CleanRemove(mayFail) ==
  /\ pc = "clean_remove"
  /\ IF ~isOrphaned(targets[1])
     THEN \E o \in WorktreeRemove(registry, dirs, branches, targets[1].path, mayFail) :
            /\ Apply(o)
            /\ calls' = Append(calls, Call("remove", targets[1].path))
     ELSE UNCHANGED <<git, calls>>
  /\ pc' = StepAfter(CleanSteps, "clean_remove")
  /\ UNCHANGED <<wts, wstat, choices, targets, idx, reports, result>>
  /\ UNCHANGED script

CleanForceDelete(mayFail) ==
  /\ pc = "clean_rm"
  /\ IF targets[1].path \in dirs
     THEN \E o \in ForceDelete(registry, dirs, branches, targets[1].path, mayFail) :
            /\ Apply(o)
            /\ calls' = Append(calls, Call("rm", targets[1].path))
     ELSE UNCHANGED <<git, calls>>
  /\ pc' = StepAfter(CleanSteps, "clean_rm")
  /\ UNCHANGED <<wts, wstat, choices, targets, idx, reports, result>>
  /\ UNCHANGED script

CleanPrune(mayFail) ==
  /\ pc = "clean_prune"
  /\ \E o \in WorktreePrune(registry, dirs, branches, mayFail) :
       /\ Apply(o)
       /\ calls' = Append(calls, Call("prune", targets[1].path))
  /\ pc' = StepAfter(CleanSteps, "clean_prune")
  /\ UNCHANGED <<wts, wstat, choices, targets, idx, reports, result>>
  /\ UNCHANGED script

Report(p) == IF p \in dirs THEN "warn" ELSE "succeed"

CleanCheck ==
  /\ pc = "clean_check"
  /\ calls' = Append(calls, Call("check", targets[1].path))
  /\ reports' = Append(reports, Report(targets[1].path))
  /\ pc' = StepAfter(CleanSteps, "clean_check")
  /\ UNCHANGED <<git, wts, wstat, choices, targets, idx, result>>
  /\ UNCHANGED script

CleanBranch(mayFail) ==
  /\ pc = "clean_branch"
  /\ IF targets[1].branch # NoBranch
     THEN \E o \in BranchDelete(registry, dirs, branches, targets[1].branch, mayFail) :
            /\ Apply(o)
            /\ calls' = Append(calls, Call("branch", targets[1].path))
     ELSE UNCHANGED <<git, calls>>
  /\ Finish("complete")
  /\ UNCHANGED <<wts, wstat, choices, targets, idx, reports>>
  /\ UNCHANGED script

cleanCommand(mayFail) ==
  \/ \E i \in Issues : CleanBegin(i)
  \/ CleanDeclineBranch
  \/ CleanConfirmBranch(mayFail)
  \/ CleanDecline
  \/ CleanConfirm
  \/ CleanClose
  \/ CleanRemove(mayFail)
  \/ CleanForceDelete(mayFail)
  \/ CleanPrune(mayFail)
  \/ CleanCheck
  \/ CleanBranch(mayFail)

\* --------------------------------------------- clean --all (cleanAllCommand)

\* checked: isMerged
PreCheckedBroken(wt) == wt.prStatus # Null

PreChecked(wt) == wt.prStatus = "merged"

Choice(wt) == [name |-> getStatusLabel(wt), value |-> wt.issueNumber, checked |-> PreChecked(wt)]

RECURSIVE BuildChoices(_)
BuildChoices(ws) ==
  IF ws = <<>> THEN <<>> ELSE <<Choice(Head(ws))>> \o BuildChoices(Tail(ws))

\* an inner catch that ignores the failure of its step: the next step follows
ContinueBroken(next, ok, last) == IF ok THEN next ELSE last

Continue(next, ok, last) == next

\* the order of the teardown statements in the loop body
CleanAllSteps ==
  <<"all_close", "all_remove", "all_rm", "all_prune", "all_branch", "all_check">>

CleanAllBegin ==
  /\ pc = "idle"
  /\ \E ws \in {getIssueWorktrees(registry, dirs)} :
         /\ wts' = ws
         /\ IF Len(ws) = 0
            THEN /\ wstat' = <<>>
                 /\ choices' = <<>>
                 /\ pc' = "done"
                 /\ result' = Result("cleanAll", 0, "noWorktrees", FALSE)
            ELSE /\ wstat' \in FetchAll(ws)
                 /\ choices' = BuildChoices(wstat')
                 /\ pc' = "all_prompt"
                 /\ result' = Result("cleanAll", 0, "running", FALSE)
  /\ targets' = <<>>
  /\ idx' = 0
  /\ calls' = <<>>
  /\ reports' = <<>>
  /\ UNCHANGED git
  /\ UNCHANGED script

\* worktrees.filter((wt) => selected.includes(wt.issueNumber))
SelectedWorktrees(ws, selected) == SelectSeq(ws, LAMBDA wt : wt.issueNumber \in selected)

\* the checkbox prompt: the user toggles entries, the prompt returns their values
CleanAllSelect ==
  /\ pc = "all_prompt"
  /\ \E ticked \in SUBSET (1..Len(choices)) :
       LET selected == {choices[k].value : k \in ticked}
       IN  IF selected = {}
           THEN /\ Finish("noneSelected")
                /\ UNCHANGED <<targets, idx>>
           ELSE /\ targets' = SelectedWorktrees(wts, selected)
                /\ idx' = 1
                /\ pc' = "all_close"
                /\ UNCHANGED result
  /\ wstat' = <<>>
  /\ choices' = <<>>
  /\ UNCHANGED <<git, wts, calls, reports>>
  /\ UNCHANGED script

CleanAllClose ==
  /\ pc = "all_close"
  /\ calls' = Append(calls, Call("close", targets[idx].path))
  /\ pc' = StepAfter(CleanAllSteps, "all_close")
  /\ UNCHANGED <<git, wts, wstat, choices, targets, idx, reports, result>>
  /\ UNCHANGED script

CleanAllRemove ==
  /\ pc = "all_remove"
  /\ IF ~isOrphaned(targets[idx]) /\ targets[idx].path \in dirs
     THEN \E o \in WorktreeRemove(registry, dirs, branches, targets[idx].path, TRUE) :
            /\ Apply(o)
            /\ calls' = Append(calls, Call("remove", targets[idx].path))
            /\ pc' = Continue(StepAfter(CleanAllSteps, "all_remove"), o.ok, "all_check")
     ELSE /\ UNCHANGED <<git, calls>>
          /\ pc' = StepAfter(CleanAllSteps, "all_remove")
  /\ UNCHANGED <<wts, wstat, choices, targets, idx, reports, result>>
  /\ UNCHANGED script

CleanAllForceDelete ==
  /\ pc = "all_rm"
  /\ IF targets[idx].path \in dirs
     THEN \E o \in ForceDelete(registry, dirs, branches, targets[idx].path, TRUE) :
            /\ Apply(o)
            /\ calls' = Append(calls, Call("rm", targets[idx].path))
            /\ pc' = Continue(StepAfter(CleanAllSteps, "all_rm"), o.ok, "all_check")
     ELSE /\ UNCHANGED <<git, calls>>
          /\ pc' = StepAfter(CleanAllSteps, "all_rm")
  /\ UNCHANGED <<wts, wstat, choices, targets, idx, reports, result>>
  /\ UNCHANGED script

CleanAllPrune ==
  /\ pc = "all_prune"
  /\ \E o \in WorktreePrune(registry, dirs, branches, TRUE) :
       /\ Apply(o)
       /\ calls' = Append(calls, Call("prune", targets[idx].path))
       /\ pc' = Continue(StepAfter(CleanAllSteps, "all_prune"), o.ok, "all_check")
  /\ UNCHANGED <<wts, wstat, choices, targets, idx, reports, result>>
  /\ UNCHANGED script

CleanAllBranch ==
  /\ pc = "all_branch"
  /\ IF targets[idx].branch # NoBranch
     THEN \E o \in BranchDelete(registry, dirs, branches, targets[idx].branch, TRUE) :
            /\ Apply(o)
            /\ calls' = Append(calls, Call("branch", targets[idx].path))
     ELSE UNCHANGED <<git, calls>>
  /\ pc' = StepAfter(CleanAllSteps, "all_branch")
  /\ UNCHANGED <<wts, wstat, choices, targets, idx, reports, result>>
  /\ UNCHANGED script

CleanAllCheck ==
  /\ pc = "all_check"
  /\ calls' = Append(calls, Call("check", targets[idx].path))
  /\ reports' = Append(reports, Report(targets[idx].path))
  /\ IF idx < Len(targets)
     THEN idx' = idx + 1 /\ pc' = "all_close"
     ELSE idx' = idx /\ pc' = "all_final"
  /\ UNCHANGED <<git, wts, wstat, choices, targets, result>>
  /\ UNCHANGED script

\* the prune after the loop is not inside a try: its failure ends the command
CleanAllFinalPrune ==
  /\ pc = "all_final"
  /\ \E o \in WorktreePrune(registry, dirs, branches, TRUE) :
       /\ Apply(o)
       /\ calls' = Append(calls, Call("finalPrune", RootPath))
       /\ Finish(IF o.ok THEN "complete" ELSE "error")
  /\ UNCHANGED <<wts, wstat, choices, targets, idx, reports>>
  /\ UNCHANGED script

cleanAllCommand ==
  \/ CleanAllBegin
  \/ CleanAllSelect
  \/ CleanAllClose
  \/ CleanAllRemove
  \/ CleanAllForceDelete
  \/ CleanAllPrune
  \/ CleanAllBranch
  \/ CleanAllCheck
  \/ CleanAllFinalPrune

\* ---------------------------------------- clean --merged (cleanMergedCommand)

IsMergedBroken(wt) == wt.prStatus \in {"merged", "closed"}

IsMerged(wt) == wt.prStatus = "merged"

IsOrphanedRecord(wt) == wt.branch = NoBranch

\* toClean = [...mergedWorktrees, ...orphanedWorktrees]
ToClean(ws) ==
  SelectSeq(ws, LAMBDA wt : IsMerged(wt)) \o SelectSeq(ws, LAMBDA wt : IsOrphanedRecord(wt))

\* the branch deletion placed before the prune
CleanMergedStepsBroken ==
  <<"merged_close", "merged_remove", "merged_rm", "merged_branch", "merged_prune", "merged_check">>

\* the order of the teardown statements in the loop body
CleanMergedSteps ==
  <<"merged_close", "merged_remove", "merged_rm", "merged_prune", "merged_branch", "merged_check">>

CleanMergedBegin ==
  /\ pc = "idle"
  /\ \E ws \in {getIssueWorktrees(registry, dirs)} :
         /\ wts' = ws
         /\ IF Len(ws) = 0
            THEN /\ wstat' = <<>>
                 /\ pc' = "done"
                 /\ result' = Result("cleanMerged", 0, "noWorktrees", FALSE)
            ELSE /\ wstat' \in FetchAll(ws)
                 /\ pc' = "merged_filter"
                 /\ result' = Result("cleanMerged", 0, "running", FALSE)
  /\ targets' = <<>>
  /\ idx' = 0
  /\ calls' = <<>>
  /\ reports' = <<>>
  /\ choices' = <<>>
  /\ UNCHANGED git
  /\ UNCHANGED script

Target(wt) ==
  [path |-> wt.path, branch |-> wt.branch, issueNumber |-> wt.issueNumber,
   prStatus |-> wt.prStatus]

RECURSIVE Targets(_)
Targets(ws) == IF ws = <<>> THEN <<>> ELSE <<Target(Head(ws))>> \o Targets(Tail(ws))

CleanMergedFilter ==
  /\ pc = "merged_filter"
  /\ IF Len(ToClean(wstat)) = 0
     THEN /\ Finish("nothingToClean")
          /\ UNCHANGED <<targets, idx>>
     ELSE /\ targets' = Targets(ToClean(wstat))
          /\ idx' = 1
          /\ pc' = "merged_close"
          /\ UNCHANGED result
  /\ wstat' = <<>>
  /\ UNCHANGED <<git, wts, choices, calls, reports>>
  /\ UNCHANGED script

CleanMergedClose ==
  /\ pc = "merged_close"
  /\ calls' = Append(calls, Call("close", targets[idx].path))
  /\ pc' = StepAfter(CleanMergedSteps, "merged_close")
  /\ UNCHANGED <<git, wts, wstat, choices, targets, idx, reports, result>>
  /\ UNCHANGED script

CleanMergedRemove ==
  /\ pc = "merged_remove"
  /\ IF ~isOrphaned(targets[idx]) /\ targets[idx].path \in dirs
     THEN \E o \in WorktreeRemove(registry, dirs, branches, targets[idx].path, TRUE) :
            /\ Apply(o)
            /\ calls' = Append(calls, Call("remove", targets[idx].path))
            /\ pc' = Continue(StepAfter(CleanMergedSteps, "merged_remove"), o.ok, "merged_check")
     ELSE /\ UNCHANGED <<git, calls>>
          /\ pc' = StepAfter(CleanMergedSteps, "merged_remove")
  /\ UNCHANGED <<wts, wstat, choices, targets, idx, reports, result>>
  /\ UNCHANGED script

CleanMergedForceDelete ==
  /\ pc = "merged_rm"
  /\ IF targets[idx].path \in dirs
     THEN \E o \in ForceDelete(registry, dirs, branches, targets[idx].path, TRUE) :
            /\ Apply(o)
            /\ calls' = Append(calls, Call("rm", targets[idx].path))
            /\ pc' = Continue(StepAfter(CleanMergedSteps, "merged_rm"), o.ok, "merged_check")
     ELSE /\ UNCHANGED <<git, calls>>
          /\ pc' = StepAfter(CleanMergedSteps, "merged_rm")
  /\ UNCHANGED <<wts, wstat, choices, targets, idx, reports, result>>
  /\ UNCHANGED script

CleanMergedPrune ==
  /\ pc = "merged_prune"
  /\ \E o \in WorktreePrune(registry, dirs, branches, TRUE) :
       /\ Apply(o)
       /\ calls' = Append(calls, Call("prune", targets[idx].path))
       /\ pc' = Continue(StepAfter(CleanMergedSteps, "merged_prune"), o.ok, "merged_check")
  /\ UNCHANGED <<wts, wstat, choices, targets, idx, reports, result>>
  /\ UNCHANGED script

CleanMergedBranch ==
  /\ pc = "merged_branch"
  /\ IF targets[idx].branch # NoBranch
     THEN \E o \in BranchDelete(registry, dirs, branches, targets[idx].branch, TRUE) :
            /\ Apply(o)
            /\ calls' = Append(calls, Call("branch", targets[idx].path))
     ELSE UNCHANGED <<git, calls>>
  /\ pc' = StepAfter(CleanMergedSteps, "merged_branch")
  /\ UNCHANGED <<wts, wstat, choices, targets, idx, reports, result>>
  /\ UNCHANGED script

CleanMergedCheck ==
  /\ pc = "merged_check"
  /\ calls' = Append(calls, Call("check", targets[idx].path))
  /\ reports' = Append(reports, Report(targets[idx].path))
  /\ IF idx < Len(targets)
     THEN idx' = idx + 1 /\ pc' = "merged_close"
     ELSE idx' = idx /\ pc' = "merged_final"
  /\ UNCHANGED <<git, wts, wstat, choices, targets, result>>
  /\ UNCHANGED script

\* the prune after the loop, inside a try
CleanMergedFinalPrune ==
  /\ pc = "merged_final"
  /\ \E o \in WorktreePrune(registry, dirs, branches, TRUE) :
       /\ Apply(o)
       /\ calls' = Append(calls, Call("finalPrune", RootPath))
  /\ Finish("complete")
  /\ UNCHANGED <<wts, wstat, choices, targets, idx, reports>>
  /\ UNCHANGED script

cleanMergedCommand ==
  \/ CleanMergedBegin
  \/ CleanMergedFilter
  \/ CleanMergedClose
  \/ CleanMergedRemove
  \/ CleanMergedForceDelete
  \/ CleanMergedPrune
  \/ CleanMergedBranch
  \/ CleanMergedCheck
  \/ CleanMergedFinalPrune

\* ------------------------------------------------- merge (cleanupWorktree)

\* the head branches of the open PRs: the issue branches and, where the state
\* holds the sibling directory named after it, a branch outside the convention
MergeHeads ==
  {IssueBranch(i, 1) : i \in Issues}
  \cup (IF OddPath \in DOMAIN registry THEN {OtherBranch} ELSE {})

\* path.join(parentDir, `${projectName}-${branchName}`)
PathOfBranch(b) == IF b.kind = "issue" THEN ConvPath(b.n, b.s) ELSE OddPath

\* pr.headRefName.match(/^issue-(\d+)-/): the issue number, 0 for null
IssueOfBranch(b) == IF BranchIssueMatch(b) THEN b.n ELSE 0

RECURSIVE PRTargets(_)
PRTargets(heads) ==
  IF heads = <<>> THEN <<>>
  ELSE <<Worktree(PathOfBranch(Head(heads)), Head(heads), IssueOfBranch(Head(heads)))>>
       \o PRTargets(Tail(heads))

\* the teardown without its prune
MergeStepsBroken ==
  <<"merge_close", "merge_remove", "merge_rm", "merge_branch", "merge_merge">>

\* the statements of cleanupWorktree, then gh pr merge
MergeSteps ==
  <<"merge_close", "merge_remove", "merge_rm", "merge_prune", "merge_branch", "merge_merge">>

\* a failed merge ends the loop
AfterMergeBroken(merged, more) == IF merged /\ more THEN "next" ELSE "finish"

\* the try/catch is inside the loop over the selected PRs: merged or failed,
\* the next PR follows
AfterMerge(merged, more) == IF more THEN "next" ELSE "finish"

\* the open PRs the user selected and confirmed, by head branch
\* the merge going on whatever the answer
AfterConfirmBroken(confirm) == MergeSteps[1]

\* "Merge n PR(s) and clean up worktrees?": if (!confirm) return
AfterConfirm(confirm) == IF confirm THEN MergeSteps[1] ELSE "done"

MergeBegin ==
  /\ pc = "idle"
  /\ \E hs \in SUBSET MergeHeads :
       \* the checkbox answer keeps the order of the choices, the order of
       \* the listing of open pull requests (here: by head name)
       \E heads \in {SortBranches(hs)} :
         IF heads = <<>>
         THEN /\ targets' = <<>>
              /\ idx' = 0
              /\ pc' = "done"
              /\ result' = Result("merge", 0, "noneSelected", FALSE)
         ELSE \E confirm \in BOOLEAN :
                /\ targets' = IF confirm THEN PRTargets(heads) ELSE <<>>
                /\ idx' = IF confirm THEN 1 ELSE 0
                /\ pc' = AfterConfirm(confirm)
                /\ result' = Result("merge", 0,
                                    IF confirm THEN "running" ELSE "cancelled", FALSE)
  /\ wts' = <<>>
  /\ wstat' = <<>>
  /\ choices' = <<>>
  /\ calls' = <<>>
  /\ reports' = <<>>
  /\ UNCHANGED git
  /\ UNCHANGED script

MergeClose ==
  /\ pc = "merge_close"
  /\ calls' = IF targets[idx].issueNumber # 0
              THEN Append(calls, Call("close", targets[idx].path))
              ELSE calls
  /\ pc' = StepAfter(MergeSteps, "merge_close")
  /\ UNCHANGED <<git, wts, wstat, choices, targets, idx, reports, result>>
  /\ UNCHANGED script

MergeRemove ==
  /\ pc = "merge_remove"
  /\ IF targets[idx].path \in dirs
     THEN \E o \in WorktreeRemove(registry, dirs, branches, targets[idx].path, TRUE) :
            /\ Apply(o)
            /\ calls' = Append(calls, Call("remove", targets[idx].path))
            /\ pc' = IF o.ok THEN StepAfter(MergeSteps, "merge_rm")
                     ELSE StepAfter(MergeSteps, "merge_remove")
     ELSE /\ UNCHANGED <<git, calls>>
          /\ pc' = StepAfter(MergeSteps, "merge_rm")
  /\ UNCHANGED <<wts, wstat, choices, targets, idx, reports, result>>
  /\ UNCHANGED script

\* the force delete in the catch of the removal
MergeForceDelete ==
  /\ pc = "merge_rm"
  /\ \E o \in ForceDelete(registry, dirs, branches, targets[idx].path, TRUE) :
       /\ Apply(o)
       /\ calls' = Append(calls, Call("rm", targets[idx].path))
  /\ pc' = StepAfter(MergeSteps, "merge_rm")
  /\ UNCHANGED <<wts, wstat, choices, targets, idx, reports, result>>
  /\ UNCHANGED script

MergePrune ==
  /\ pc = "merge_prune"
  /\ \E o \in WorktreePrune(registry, dirs, branches, TRUE) :
       /\ Apply(o)
       /\ calls' = Append(calls, Call("prune", targets[idx].path))
  /\ pc' = StepAfter(MergeSteps, "merge_prune")
  /\ UNCHANGED <<wts, wstat, choices, targets, idx, reports, result>>
  /\ UNCHANGED script

MergeBranch ==
  /\ pc = "merge_branch"
  /\ \E o \in BranchDelete(registry, dirs, branches, targets[idx].branch, TRUE) :
       /\ Apply(o)
       /\ calls' = Append(calls, Call("branch", targets[idx].path))
  /\ pc' = StepAfter(MergeSteps, "merge_branch")
  /\ UNCHANGED <<wts, wstat, choices, targets, idx, reports, result>>
  /\ UNCHANGED script

\* `gh pr merge <n> --squash --delete-branch`: merged or failed; gh also deletes
\* the local branch when it can
MergePR ==
  /\ pc = "merge_merge"
  /\ \E merged \in BOOLEAN :
       /\ reports' = Append(reports, IF merged THEN "merged" ELSE "failed")
       /\ IF merged
          THEN \E o \in BranchDelete(registry, dirs, branches, targets[idx].branch, TRUE) :
                 Apply(o)
          ELSE UNCHANGED git
       /\ IF AfterMerge(merged, idx < Len(targets)) = "next"
          THEN idx' = idx + 1 /\ pc' = MergeSteps[1] /\ UNCHANGED result
          ELSE idx' = idx /\ Finish("complete")
  /\ calls' = Append(calls, Call("merge", targets[idx].path))
  /\ UNCHANGED <<wts, wstat, choices, targets>>
  /\ UNCHANGED script

mergeCommand ==
  \/ MergeBegin
  \/ MergeClose
  \/ MergeRemove
  \/ MergeForceDelete
  \/ MergePrune
  \/ MergeBranch
  \/ MergePR

\* the user interrupts the running command
Interrupt ==
  /\ pc \notin {"idle", "done"}
  /\ Finish("interrupted")
  /\ UNCHANGED <<git, wts, wstat, choices, targets, idx, calls, reports>>
  /\ UNCHANGED script

\* the exit code of the process of a command that has returned: 1 after
\* process.exit(1), 0 when the action's promise resolves
ExitCode(res) == IF res.outcome = "exit1" THEN 1 ELSE 0

\* the process exits: what the command held in memory is gone
Exit ==
  /\ pc = "done"
  /\ pc' = "idle"
  /\ wts' = <<>>
  /\ wstat' = <<>>
  /\ choices' = <<>>
  /\ targets' = <<>>
  /\ idx' = 0
  /\ calls' = <<>>
  /\ reports' = <<>>
  /\ UNCHANGED <<git, result>>
  /\ UNCHANGED script

\* ================================================================ teardown

MainPaths == {ConvPath(i, 1) : i \in Issues}

MainHeads(p) == {NoReg, Detached, OnBranch(IssueBranch(p.n, 1))}

MainBranches == {IssueBranch(i, 1) : i \in Issues}

Init ==
  /\ registry \in [MainPaths \cup {RootPath} ->
                     UNION {MainHeads(p) : p \in MainPaths} \cup {OnBranch(MainBranch)}]
  /\ \A p \in MainPaths : registry[p] \in MainHeads(p)
  /\ RegistryConsistent(registry)
  /\ dirs \in {ds \cup {RootPath} : ds \in SUBSET MainPaths}
  /\ branches \in {bs \cup {MainBranch} : bs \in SUBSET MainBranches}
  /\ GitConsistent(registry, dirs, branches)
  /\ wts = <<>>
  /\ pc = "idle"
  /\ RunInit

Next ==
  \/ cleanCommand(TRUE)
  \/ cleanAllCommand
  \/ cleanMergedCommand
  \/ mergeCommand
  \/ Interrupt
  \/ Exit

Spec == Init /\ [][Next]_vars

\* =========================== recovery: clean <issue> invoked again and again

\* a teardown of some issue was interrupted, or its folder was deleted by hand:
\* any well-formed state of the repository
InitRecover ==
  /\ registry \in [MainPaths \cup {RootPath} ->
                     UNION {MainHeads(p) : p \in MainPaths} \cup {OnBranch(MainBranch)}]
  /\ \A p \in MainPaths : registry[p] \in MainHeads(p)
  /\ RegistryConsistent(registry)
  /\ dirs \in {ds \cup {RootPath} : ds \in SUBSET MainPaths}
  /\ branches \in {bs \cup {MainBranch} : bs \in SUBSET MainBranches}
  /\ GitConsistent(registry, dirs, branches)
  /\ wts = <<>>
  /\ pc = "idle"
  /\ wstat = <<>>
  /\ choices = <<>>
  /\ targets = <<>>
  /\ idx = 0
  /\ calls = <<>>
  /\ reports = <<>>
  /\ ScriptInit
  /\ \E i \in Issues : result = Result("clean", i, "interrupted", FALSE)

\* the user runs clean for the same issue, confirms every prompt, and git and
\* the file system do what they are asked
NextRecover ==
  \/ CleanBegin(result.issue)
  \/ CleanConfirmBranch(FALSE)
  \/ CleanConfirm
  \/ CleanClose
  \/ CleanRemove(FALSE)
  \/ CleanForceDelete(FALSE)
  \/ CleanPrune(FALSE)
  \/ CleanCheck
  \/ CleanBranch(FALSE)
  \/ Exit

SpecRecover == InitRecover /\ [][NextRecover]_vars /\ WF_vars(NextRecover)

\* ============================ merge with a PR branch outside the convention

\* the sibling directory {projectName}-{branch} of a branch that is no issue
\* branch may exist, as a worktree of that branch or as a plain directory
InitMerge ==
  /\ registry \in [MainPaths \cup {OddPath, RootPath} ->
                     {NoReg, OnBranch(OtherBranch), OnBranch(MainBranch)}
                     \cup {OnBranch(b) : b \in MainBranches}]
  /\ \A p \in MainPaths : registry[p] \in {NoReg, OnBranch(IssueBranch(p.n, 1))}
  /\ registry[OddPath] \in {NoReg, OnBranch(OtherBranch)}
  /\ RegistryConsistent(registry)
  /\ dirs = {p \in DOMAIN registry : registry[p] # NoReg} \/ dirs = DOMAIN registry
  /\ branches \in {bs \cup {MainBranch} : bs \in SUBSET (MainBranches \cup {OtherBranch})}
  /\ GitConsistent(registry, dirs, branches)
  /\ wts = <<>>
  /\ pc = "idle"
  /\ RunInit

NextMerge == mergeCommand \/ Exit

SpecMerge == InitMerge /\ [][NextMerge]_vars

\* ===================================== the status label on its own records

LabelRecords ==
  UNION {{[path |-> ConvPath(i, 1), branch |-> b, issueNumber |-> i,
           issueStatus |-> is, prStatus |-> pr] :
            b \in {NoBranch, IssueBranch(i, 1)}, is \in IssueStates, pr \in PRStates} :
         i \in DiscIssues}

InitLabel ==
  /\ registry = [p \in {RootPath} |-> OnBranch(MainBranch)]
  /\ dirs = {RootPath}
  /\ branches = {MainBranch}
  /\ wts = <<>>
  /\ pc = "idle"
  /\ wstat \in {<<w>> : w \in LabelRecords}
  /\ choices = <<>>
  /\ targets = <<>>
  /\ idx = 0
  /\ calls = <<>>
  /\ reports = <<>>
  /\ result = Result("none", 0, "none", FALSE)
  /\ ScriptInit

Label ==
  /\ pc = "idle"
  /\ choices' = BuildChoices(wstat)
  /\ pc' = "labelled"
  /\ UNCHANGED <<git, wts, wstat, targets, idx, calls, reports, result>>
  /\ UNCHANGED script

NextLabel == Label

SpecLabel == InitLabel /\ [][NextLabel]_vars

\* ============================== the pre-selection of merge on its own list

\* reviewDecision of `gh pr list --json`: "null" stands for null / ""
ReviewDecisions == {"APPROVED", "CHANGES_REQUESTED", "REVIEW_REQUIRED", "null"}

\* mergeable of `gh pr list --json`
Mergeables == {"MERGEABLE", "CONFLICTING", "UNKNOWN"}

\* prs.map((pr) => ({...pr, issueNumber: match ? parseInt(match[1], 10) : null}))
OpenPR(head, rd, mg) ==
  [headRefName |-> head, issueNumber |-> IssueOfBranch(head),
   reviewDecision |-> rd, mergeable |-> mg]

PreselectHeads == {IssueBranch(i, 1) : i \in Issues} \cup {OtherBranch}

OpenPRs == {OpenPR(h, rd, mg) : h \in PreselectHeads, rd \in ReviewDecisions,
                                mg \in Mergeables}

\* reads the review decision only
canMergeBroken(pr) == pr.reviewDecision = "APPROVED"

\* let canMerge = false; case 'APPROVED': canMerge = pr.mergeable === 'MERGEABLE'
canMerge(pr) ==
  CASE pr.reviewDecision = "APPROVED" -> pr.mergeable = "MERGEABLE"
    [] OTHER -> FALSE

\* the statusTag of a choice: the review part and the conflict mark
StatusTag(pr) ==
  [review |-> CASE pr.reviewDecision = "APPROVED" -> "Approved"
                [] pr.reviewDecision = "CHANGES_REQUESTED" -> "Changes requested"
                [] pr.reviewDecision = "REVIEW_REQUIRED" -> "Review required"
                [] OTHER -> "No reviews",
   conflicts |-> pr.mergeable = "CONFLICTING"]

\* const choices = prs.map((pr) => ({name, value: pr, checked: canMerge}))
MergeChoices(list) ==
  [k \in 1..Len(list) |->
     [value |-> list[k], issueTag |-> list[k].issueNumber # 0,
      statusTag |-> StatusTag(list[k]), checked |-> canMerge(list[k])]]

\* the open PRs of the host: one or two, with distinct heads
InitPreselect ==
  /\ registry = [p \in {RootPath} |-> OnBranch(MainBranch)]
  /\ dirs = {RootPath}
  /\ branches = {MainBranch}
  /\ wts = <<>>
  /\ pc = "idle"
  /\ wstat \in {<<a>> : a \in OpenPRs}
               \cup {pq \in {<<a, b>> : a \in OpenPRs, b \in OpenPRs} :
                       BranchLess(pq[1].headRefName, pq[2].headRefName)}
  /\ choices = <<>>
  /\ targets = <<>>
  /\ idx = 0
  /\ calls = <<>>
  /\ reports = <<>>
  /\ result = Result("none", 0, "none", FALSE)
  /\ ScriptInit

Preselect ==
  /\ pc = "idle"
  /\ choices' = MergeChoices(wstat)
  /\ pc' = "preselected"
  /\ UNCHANGED <<git, wts, wstat, targets, idx, calls, reports, result>>
  /\ UNCHANGED script

NextPreselect == Preselect

SpecPreselect == InitPreselect /\ [][NextPreselect]_vars

\* ================= the runner script of solve (interactive mode): create_pr

\* what the commands hold; the runner script does not touch it
cmd == <<registry, dirs, branches, wts, pc, wstat, choices, targets, idx, calls, reports,
         result, app>>

\* the states of a pull request on the host
PRStatesOnHost == {"open", "closed", "merged"}

\* gh pr list --head "${branchName}" --json number --jq '.[0].number':
\* the list's default is --state open; non-empty when an open PR has the head
HasOpenPR(ps) == \E k \in 1..Len(ps) : ps[k] = "open"

\* EXISTING_PR as create_pr tests it with [ -z "$EXISTING_PR" ]
ExistingPR(ps) == HasOpenPR(ps)

RunnerProc == {"watcher", "main"}

\* the script generated with autoMode keeps the loop's counter
AutoMode == "ITERATION" \in DOMAIN runner

\* where process P goes when create_pr returns: the watcher to its
\* assignment, the script of auto mode to its loop, the other to its end
Return(P) ==
  IF P = "watcher" THEN "assign"
  ELSE IF AutoMode THEN "while"
  ELSE "end"

\* a killed watcher runs no further command
Goto(P, next) == IF P = "watcher" /\ runner.watcher.killed THEN "dead" ELSE next

\* the runner starts in a worktree whose branch is at most one commit ahead,
\* with the PRs earlier sessions left on the host
InitRunner ==
  /\ registry = [p \in {RootPath} |-> OnBranch(MainBranch)]
  /\ dirs = {RootPath}
  /\ branches = {MainBranch}
  /\ wts = <<>>
  /\ pc = "idle"
  /\ wstat = <<>>
  /\ choices = <<>>
  /\ targets = <<>>
  /\ idx = 0
  /\ calls = <<>>
  /\ reports = <<>>
  /\ result = Result("none", 0, "none", FALSE)
  /\ app = NoApp
  /\ prs \in {<<>>} \cup {<<st>> : st \in PRStatesOnHost}
  /\ \E h \in {0, 1} :
       runner = [head |-> h, pushed |-> IF Len(prs) > 0 THEN h ELSE 0, created |-> 0,
                 main |-> [pc |-> "claude", existing |-> FALSE],
                 watcher |-> [pc |-> "poll", killed |-> FALSE, last |-> NoCommit,
                              cur |-> NoCommit, existing |-> FALSE]]

\* COMMITS=$(git log origin/${baseBranch}..HEAD --oneline | wc -l);
\* if [ "$COMMITS" -gt 0 ]
CreatePrCount(P) ==
  /\ runner[P].pc = "count"
  /\ runner' = [runner EXCEPT ![P].pc = IF runner.head > 0 THEN "list" ELSE Return(P)]
  /\ UNCHANGED <<cmd, prs>>

\* EXISTING_PR=$(gh pr list --head ... 2>/dev/null): empty also when gh fails
CreatePrList(P) ==
  /\ runner[P].pc = "list"
  /\ \E e \in {ExistingPR(prs), FALSE} :
       runner' = [runner EXCEPT ![P].existing = e,
                                ![P].pc = IF e THEN "push" ELSE "pushNew"]
  /\ UNCHANGED <<cmd, prs>>

\* git push -u origin "${branchName}" 2>/dev/null
CreatePrPushNew(P) ==
  /\ runner[P].pc = "pushNew"
  /\ \E ok \in BOOLEAN :
       runner' = [runner EXCEPT !.pushed = IF ok THEN runner.head ELSE @,
                                ![P].pc = Goto(P, "create")]
  /\ UNCHANGED <<cmd, prs>>

\* PR_URL=$(gh pr create --head "${branchName}" --base ${baseBranch}): the host
\* refuses a second open PR of a head and a head it does not have
CreatePrCreate(P) ==
  /\ runner[P].pc = "create"
  /\ \/ /\ ~HasOpenPR(prs)
        /\ runner.pushed > 0
        /\ prs' = Append(prs, "open")
        /\ runner' = [runner EXCEPT !.created = @ + 1, ![P].pc = Goto(P, Return(P))]
     \/ /\ prs' = prs
        /\ runner' = [runner EXCEPT ![P].pc = Goto(P, Return(P))]
  /\ UNCHANGED cmd

\* PR exists, just push new commits: git push origin "${branchName}"
CreatePrPush(P) ==
  /\ runner[P].pc = "push"
  /\ \E ok \in BOOLEAN :
       runner' = [runner EXCEPT !.pushed = IF ok THEN runner.head ELSE @,
                                ![P].pc = Goto(P, Return(P))]
  /\ UNCHANGED <<cmd, prs>>

create_pr(P) ==
  \/ CreatePrCount(P)
  \/ CreatePrList(P)
  \/ CreatePrPushNew(P)
  \/ CreatePrCreate(P)
  \/ CreatePrPush(P)

\* a watcher whose test lacks [ -n "$LAST_COMMIT" ]
WatcherPollBroken ==
  /\ runner.watcher.pc = "poll"
  /\ runner' =
       IF runner.head # runner.watcher.last
       THEN [runner EXCEPT !.watcher.cur = runner.head, !.watcher.pc = "count"]
       ELSE [runner EXCEPT !.watcher.cur = runner.head, !.watcher.last = runner.head]
  /\ UNCHANGED <<cmd, prs>>

\* CURRENT_COMMIT=$(git rev-parse HEAD); the test of the loop body; when it
\* fails LAST_COMMIT="$CURRENT_COMMIT"; sleep 2
WatcherPoll ==
  /\ runner.watcher.pc = "poll"
  /\ runner' =
       IF runner.head # runner.watcher.last /\ runner.watcher.last # NoCommit
       THEN [runner EXCEPT !.watcher.cur = runner.head, !.watcher.pc = "count"]
       ELSE [runner EXCEPT !.watcher.cur = runner.head, !.watcher.last = runner.head]
  /\ UNCHANGED <<cmd, prs>>

\* LAST_COMMIT="$CURRENT_COMMIT"; sleep 2 after create_pr
WatcherAssign ==
  /\ runner.watcher.pc = "assign"
  /\ runner' = [runner EXCEPT !.watcher.last = runner.watcher.cur, !.watcher.pc = "poll"]
  /\ UNCHANGED <<cmd, prs>>

\* the assistant commits in the worktree
ClaudeCommit ==
  /\ runner.main.pc = "claude"
  /\ runner.head < MaxCommits
  /\ runner' = [runner EXCEPT !.head = @ + 1]
  /\ UNCHANGED <<cmd, prs>>

\* claude returns; rm -f the prompt file
ClaudeExit ==
  /\ runner.main.pc = "claude"
  /\ runner' = [runner EXCEPT !.main.pc = "kill"]
  /\ UNCHANGED <<cmd, prs>>

\* kill $WATCHER_PID: the loop's shell ends; a push or gh command it had
\* started may still complete
KillWatcher ==
  /\ runner.main.pc = "kill"
  /\ \E w \in (IF runner.watcher.pc \in {"pushNew", "create", "push"}
               THEN {runner.watcher.pc, "dead"} ELSE {"dead"}) :
       runner' = [runner EXCEPT !.watcher.killed = TRUE, !.watcher.pc = w,
                                !.main.pc = "count"]
  /\ UNCHANGED <<cmd, prs>>

\* somebody closes or merges the open PR on the host
HostClose ==
  /\ runner.main.pc # "none"
  /\ \E k \in 1..Len(prs) : \E st \in {"closed", "merged"} :
       /\ prs[k] = "open"
       /\ prs' = [prs EXCEPT ![k] = st]
  /\ UNCHANGED <<cmd, runner>>

NextRunner ==
  \/ \E P \in RunnerProc : create_pr(P)
  \/ WatcherPoll
  \/ WatcherAssign
  \/ ClaudeCommit
  \/ ClaudeExit
  \/ KillWatcher
  \/ HostClose

SpecRunner == InitRunner /\ [][NextRunner]_vars

\* ============ the runner script of solve --auto: the review and fix loop

\* MAX_ITERATIONS=3
MAX_ITERATIONS == 3

\* what gh pr view --json reviewDecision prints; "" also when gh fails
ReviewStatuses == {"APPROVED", "CHANGES_REQUESTED", "REVIEW_REQUIRED", ""}

\* the script when claude -p has returned from solving, with at most one
\* commit made, at its call of create_pr; ITERATION=0
InitAuto ==
  /\ registry = [p \in {RootPath} |-> OnBranch(MainBranch)]
  /\ dirs = {RootPath}
  /\ branches = {MainBranch}
  /\ wts = <<>>
  /\ pc = "idle"
  /\ wstat = <<>>
  /\ choices = <<>>
  /\ targets = <<>>
  /\ idx = 0
  /\ calls = <<>>
  /\ reports = <<>>
  /\ result = Result("none", 0, "none", FALSE)
  /\ app = NoApp
  /\ prs \in {<<>>} \cup {<<st>> : st \in PRStatesOnHost}
  /\ \E h \in {0, 1} :
       runner = [head |-> h, pushed |-> IF Len(prs) > 0 THEN h ELSE 0, created |-> 0,
                 main |-> [pc |-> "count", existing |-> FALSE],
                 ITERATION |-> 0, PR_NUM |-> FALSE, REVIEW_STATUS |-> "",
                 reviews |-> 0, fixes |-> 0]

\* a fix attempted in every iteration
AfterStatusBroken(status, iteration) ==
  IF status = "APPROVED" THEN "end"
  ELSE IF status = "CHANGES_REQUESTED" THEN "fix"
  ELSE "end"

\* the if / elif / else after the review: break, fix, or fall through to the
\* loop's test
AfterStatus(status, iteration) ==
  IF status = "APPROVED" THEN "end"
  ELSE IF status = "CHANGES_REQUESTED"
  THEN IF iteration < MAX_ITERATIONS THEN "fix" ELSE "while"
  ELSE "end"

\* while [ $ITERATION -lt $MAX_ITERATIONS ]; do ITERATION=$((ITERATION + 1))
AutoWhile ==
  /\ runner.main.pc = "while"
  /\ runner' = IF runner.ITERATION < MAX_ITERATIONS
               THEN [runner EXCEPT !.ITERATION = @ + 1, !.main.pc = "get_pr_number"]
               ELSE [runner EXCEPT !.main.pc = "end"]
  /\ UNCHANGED <<cmd, prs>>

\* PR_NUM=$(get_pr_number): gh pr list --head, empty also when gh fails;
\* if [ -z "$PR_NUM" ] break
AutoGetPrNumber ==
  /\ runner.main.pc = "get_pr_number"
  /\ \E found \in {HasOpenPR(prs), FALSE} :
       runner' = [runner EXCEPT !.PR_NUM = found,
                                !.main.pc = IF found THEN "review" ELSE "end"]
  /\ UNCHANGED <<cmd, prs>>

\* claude -p with the review prompt
AutoReview ==
  /\ runner.main.pc = "review"
  /\ runner' = [runner EXCEPT !.reviews = @ + 1, !.main.pc = "get_review_status"]
  /\ UNCHANGED <<cmd, prs>>

\* REVIEW_STATUS=$(get_review_status $PR_NUM) and the branches on it
AutoReviewStatus ==
  /\ runner.main.pc = "get_review_status"
  /\ \E status \in ReviewStatuses :
       runner' = [runner EXCEPT !.REVIEW_STATUS = status,
                                !.main.pc = AfterStatus(status, runner.ITERATION)]
  /\ UNCHANGED <<cmd, prs>>

\* claude -p with the fix prompt; git push origin "${branchName}"
AutoFix ==
  /\ runner.main.pc = "fix"
  /\ \E ok \in BOOLEAN :
       runner' = [runner EXCEPT !.fixes = @ + 1,
                                !.pushed = IF ok THEN runner.head ELSE @,
                                !.main.pc = "while"]
  /\ UNCHANGED <<cmd, prs>>

AutoLoop == AutoWhile \/ AutoGetPrNumber \/ AutoReview \/ AutoReviewStatus \/ AutoFix

NextAuto == create_pr("main") \/ AutoLoop \/ HostClose

\* every command of the script returns
SpecAuto ==
  InitAuto /\ [][NextAuto]_vars /\ WF_vars(create_pr("main") \/ AutoLoop)

\* ============================================== the slug of an issue title

\* A text is the sequence of its characters.

UpperCase ==
  <<"A", "B", "C", "D", "E", "F", "G", "H", "I", "J", "K", "L", "M",
    "N", "O", "P", "Q", "R", "S", "T", "U", "V", "W", "X", "Y", "Z">>

LowerCase ==
  <<"a", "b", "c", "d", "e", "f", "g", "h", "i", "j", "k", "l", "m",
    "n", "o", "p", "q", "r", "s", "t", "u", "v", "w", "x", "y", "z">>

Digits == {"0", "1", "2", "3", "4", "5", "6", "7", "8", "9"}

\* String.prototype.toLowerCase, on one character
toLowerCase(c) ==
  IF \E k \in 1..26 : UpperCase[k] = c
  THEN LowerCase[CHOOSE k \in 1..26 : UpperCase[k] = c]
  ELSE c

\* text.split('-')
RECURSIVE Split(_, _, _)
Split(text, k, word) ==
  IF k > Len(text) THEN <<word>>
  ELSE IF text[k] = "-" THEN <<word>> \o Split(text, k + 1, <<>>)
  ELSE Split(text, k + 1, Append(word, text[k]))

\* words.join('-')
RECURSIVE Join(_, _)
Join(words, k) ==
  IF k > Len(words) THEN <<>>
  ELSE (IF k > 1 THEN <<"-">> ELSE <<>>) \o words[k] \o Join(words, k + 1)

\* the elements of a sequence whose index is in keep, in order
RECURSIVE Filter(_, _, _)
Filter(seq, k, keep) ==
  IF k > Len(seq) THEN <<>>
  ELSE (IF k \in keep THEN <<seq[k]>> ELSE <<>>) \o Filter(seq, k + 1, keep)

\* text.slice(0, n)
Slice(text, n) == SubSeq(text, 1, IF Len(text) < n THEN Len(text) ELSE n)

\* lower case, every other character a hyphen, runs of hyphens collapsed,
\* one leading and one trailing hyphen removed
Hyphenate(text) ==
  LET lowered == [k \in 1..Len(text) |->
                    IF toLowerCase(text[k]) \in {LowerCase[j] : j \in 1..26} \cup Digits
                    THEN toLowerCase(text[k]) ELSE "-"]
      collapsed == Filter(lowered, 1,
                          {k \in 1..Len(lowered) :
                             ~(lowered[k] = "-" /\ k > 1 /\ lowered[k - 1] = "-")})
      m == Len(collapsed)
      first == IF m > 0 /\ collapsed[1] = "-" THEN 2 ELSE 1
      stripped == SubSeq(collapsed, first, m)
      n == Len(stripped)
  IN  IF n > 0 /\ stripped[n] = "-" THEN SubSeq(stripped, 1, n - 1) ELSE stripped

\* the slugify without the bracket prefix removal and the word deduplication,
\* cut at 50
slugifyBroken(text) == Slice(Hyphenate(text), 50)

\* text.replace(/^\[.*?\]\s*/, ''); then Hyphenate; then the words that differ
\* from the word before them; then the first 30 characters
slugify(text) ==
  LET n == Len(text)
      close == IF n > 0 /\ text[1] = "[" /\ \E k \in 2..n : text[k] = "]"
               THEN CHOOSE k \in 2..n : text[k] = "]" /\ \A j \in 2..(k - 1) : text[j] # "]"
               ELSE 0
      start == IF close = 0 THEN 1
               ELSE IF \E k \in (close + 1)..n : text[k] # " "
               THEN CHOOSE k \in (close + 1)..n :
                      text[k] # " " /\ \A j \in (close + 1)..(k - 1) : text[j] = " "
               ELSE n + 1
      withoutBrackets == SubSeq(text, start, n)
      words == Split(Hyphenate(withoutBrackets), 1, <<>>)
      deduped == Filter(words, 1, {i \in 1..Len(words) : i = 1 \/ words[i] # words[i - 1]})
  IN  Slice(Join(deduped, 1), 30)

\* the titles of the issues
IssueTitles ==
  {<<"[", "B", "u", "g", "]", " ", "A", "d", "d", " ", "d", "a", "r",
   "k", " ", "m", "o", "d", "e", " ", "s", "u", "p", "p", "o", "r",
   "t">>,
   <<"F", "i", "x", ":", " ", "i", "s", "s", "u", "e", " ", "#", "1",
   "2", "3", "!">>}

\* the slugs that occur in the names: the s of a path or of a branch is the
\* index of its slug in this table
SlugTexts ==
  <<<<"a", "d", "d", "-", "d", "a", "r", "k", "-", "m", "o", "d", "e",
    "-", "s", "u", "p", "p", "o", "r", "t">>,
    <<"f", "i", "x", "-", "i", "s", "s", "u", "e", "-", "1", "2", "3">>,
    <<"b", "u", "g", "-", "a", "d", "d", "-", "d", "a", "r", "k", "-",
    "m", "o", "d", "e", "-", "s", "u", "p", "p", "o", "r", "t">>>>

SlugId(text) == CHOOSE s \in DOMAIN SlugTexts : SlugTexts[s] = text

\* ------------------------------------------- slugify applied to the titles

\* the number of pieces a title is made of
MaxBlocks == 3

\* the pieces: two words of 14 letters followed by a space, and single
\* characters of every class slugify tells apart
TitleBlocks ==
  {<<"a", "b", "c", "d", "e", "f", "g", "h", "i", "j", "k", "l", "m",
   "n", " ">>,
   <<"o", "p", "q", "r", "s", "t", "u", "v", "w", "x", "y", "z", "a",
   "b", " ">>,
   <<"a">>, <<"B">>, <<"9">>, <<" ">>, <<"-">>, <<"[">>, <<"]">>}

RECURSIVE TitlesOf(_)
TitlesOf(n) ==
  IF n = 0 THEN {<<>>}
  ELSE LET shorter == TitlesOf(n - 1)
       IN  shorter \cup {b \o t : b \in TitleBlocks, t \in shorter}

Applying(fn, args) == [fn |-> fn, args |-> args, value |-> <<>>, done |-> FALSE]

\* no command runs while a function of the naming layer is applied
NoCommand ==
  /\ registry = [p \in {RootPath} |-> OnBranch(MainBranch)]
  /\ dirs = {RootPath}
  /\ branches = {MainBranch}
  /\ wts = <<>>
  /\ pc = "idle"
  /\ wstat = <<>>
  /\ choices = <<>>
  /\ targets = <<>>
  /\ idx = 0
  /\ calls = <<>>
  /\ reports = <<>>
  /\ result = Result("none", 0, "none", FALSE)
  /\ prs = <<>>
  /\ runner = NoRunner

InitSlug ==
  /\ NoCommand
  /\ \E text \in TitlesOf(MaxBlocks) : app = Applying("slugify", <<text>>)

\* const branchSlug = slugify(issue.title)
Slugify ==
  /\ app.fn = "slugify"
  /\ ~app.done
  /\ app' = [app EXCEPT !.value = slugify(app.args[1]), !.done = TRUE]
  /\ UNCHANGED <<prs, runner>>
  /\ UNCHANGED <<registry, dirs, branches, wts, pc, wstat, choices, targets, idx, calls,
                 reports, result>>

\* a slug given to slugify again, as the title
SlugifyAgain ==
  /\ app.fn = "slugify"
  /\ app.done
  /\ app.value # app.args[1]
  /\ app' = Applying("slugify", <<app.value>>)
  /\ UNCHANGED <<prs, runner>>
  /\ UNCHANGED <<registry, dirs, branches, wts, pc, wstat, choices, targets, idx, calls,
                 reports, result>>

NextSlug == Slugify \/ SlugifyAgain

SpecSlug == InitSlug /\ [][NextSlug]_vars

\* ------------------------------- the names solve derives for two issues

\* issue numbers of one and of two digits
NameIssues == Issues \cup {12, 42}

\* `${issueNumber}` in a template literal
RECURSIVE Decimal(_)
Decimal(n) ==
  LET digit == <<"0", "1", "2", "3", "4", "5", "6", "7", "8", "9">>[(n % 10) + 1]
  IN  IF n < 10 THEN <<digit>> ELSE Append(Decimal(n \div 10), digit)

\* the name without the issue number
branchNameBroken(issueNumber, title) ==
  <<"i", "s", "s", "u", "e", "-">> \o slugify(title)

\* `issue-${issueNumber}-${branchSlug}`
branchName(issueNumber, title) ==
  <<"i", "s", "s", "u", "e", "-">> \o Decimal(issueNumber) \o <<"-">> \o slugify(title)

\* path.dirname(projectRoot) and getProjectName() of a project at /w/proj
ParentDir == <<"/", "w">>
ProjectName == <<"p", "r", "o", "j">>

\* path.join(path.dirname(projectRoot), `${projectName}-${branchName}`)
worktreePath(issueNumber, title) ==
  ParentDir \o <<"/">> \o ProjectName \o <<"-">> \o branchName(issueNumber, title)

\* a title and a title that differs from it by one piece at an end
TitleVariants(t) == {t} \cup {b \o t : b \in TitleBlocks} \cup {t \o b : b \in TitleBlocks}

InitNames ==
  /\ NoCommand
  /\ \E n1 \in NameIssues, n2 \in NameIssues, t1 \in TitlesOf(MaxBlocks - 1) :
       \E t2 \in TitleVariants(t1) :
         /\ n1 < n2
         /\ app = Applying("names", <<n1, t1, n2, t2>>)

\* solveCommand's branchName and worktreePath, for one issue and for another
DeriveNames ==
  /\ app.fn = "names"
  /\ ~app.done
  /\ app' = [app EXCEPT
               !.value = <<branchName(app.args[1], app.args[2]),
                           worktreePath(app.args[1], app.args[2]),
                           branchName(app.args[3], app.args[4]),
                           worktreePath(app.args[3], app.args[4])>>,
               !.done = TRUE]
  /\ UNCHANGED <<prs, runner>>
  /\ UNCHANGED <<registry, dirs, branches, wts, pc, wstat, choices, targets, idx, calls,
                 reports, result>>

NextNames == DeriveNames

SpecNames == InitNames /\ [][NextNames]_vars

\* ------------------------------------------------ list: the limit it uses

\* the largest value given to --limit
MaxLimit == 60

\* JavaScript values: a number, NaN, undefined
Number(n) == [kind |-> "number", n |-> n]
NaN == [kind |-> "NaN", n |-> 0]
Undefined == [kind |-> "undefined", n |-> 0]

\* --limit taking precedence over --all
listLimitBroken(options) ==
  IF options.limit # Undefined THEN options.limit
  ELSE IF options.all THEN Number(0) ELSE Number(50)

\* const limit = options.all ? 0 : (options.limit ?? 50)
listLimit(options) ==
  IF options.all THEN Number(0)
  ELSE IF options.limit = Undefined THEN Number(50) ELSE options.limit

\* commander: all is true when --all is given (FALSE here: absent); --limit
\* <number> is parseInt(val, 10)
InitList ==
  /\ NoCommand
  /\ \E all \in BOOLEAN, limit \in {Number(n) : n \in 0..MaxLimit} \cup {NaN, Undefined} :
       app = Applying("list", <<[all |-> all, limit |-> limit]>>)

\* listCommand(options): const issues = listIssues(limit)
ListCommand ==
  /\ app.fn = "list"
  /\ ~app.done
  /\ app' = [app EXCEPT !.value = <<listLimit(app.args[1])>>, !.done = TRUE]
  /\ UNCHANGED <<prs, runner>>
  /\ UNCHANGED <<registry, dirs, branches, wts, pc, wstat, choices, targets, idx, calls,
                 reports, result>>

NextList == ListCommand

SpecList == InitList /\ [][NextList]_vars

\* ================================================ solve, and select's batch

\* the slugs an issue's names can have
SolveSlugs == DOMAIN SlugTexts

SolvePaths == {ConvPath(i, s) : i \in Issues, s \in SolveSlugs}

\* always creates
WorktreeExistsBroken(p, ds) == FALSE

\* fs.existsSync(worktreePath)
WorktreeExists(p, ds) == p \in ds

\* never sees the branch
branchExistsBroken(b, brs) == FALSE

\* git show-ref --verify --quiet refs/heads/${branchName}
branchExists(b, brs) == b \in brs

\* `git worktree add "<p>" "<b>"` (newBranch FALSE) and
\* `git worktree add "<p>" -b "<b>" origin/<base>` (newBranch TRUE): git refuses
\* a registered path, a branch checked out in another worktree, -b with a
\* branch that exists and a branch to attach to that does not exist; any call
\* may fail and then leaves nothing. ok: the call did not throw.
WorktreeAdd(reg, ds, brs, p, b, newBranch) ==
  {GitState(reg, ds, brs, FALSE)}
  \cup (IF /\ reg[p] = NoReg
           /\ p \notin ds
           /\ \A q \in DOMAIN reg : reg[q] # OnBranch(b)
           /\ newBranch <=> b \notin brs
        THEN {GitState([reg EXCEPT ![p] = OnBranch(b)], ds \cup {p}, brs \cup {b}, TRUE)}
        ELSE {})

\* the catch of the worktree creation does not end the process
SolveAfterNoCatch(step, ok) ==
  CASE step = "fetch" -> "solve_worktree"
    [] step = "add" -> "solve_setup"

\* the catch of the fetch ends the process
SolveAfterFatalFetch(step, ok) ==
  CASE step = "fetch" -> IF ok THEN "solve_worktree" ELSE "exit"
    [] step = "add" -> IF ok THEN "solve_setup" ELSE "exit"

\* what follows a try block of solveCommand: the catch of git fetch warns and
\* goes on, the catch of git worktree add calls process.exit(1)
SolveAfter(step, ok) ==
  CASE step = "fetch" -> "solve_worktree"
    [] step = "add" -> IF ok THEN "solve_setup" ELSE "exit"

\* what is left of an issue's earlier work: nothing, a worktree, its branch
\* alone, a registration whose folder was deleted, or a folder alone
SolveLeft(i) ==
  LET p == ConvPath(i, 1)
      b == IssueBranch(i, 1)
  IN  {[reg |-> NoReg, dirs |-> {}, brs |-> {}],
       [reg |-> OnBranch(b), dirs |-> {p}, brs |-> {b}],
       [reg |-> NoReg, dirs |-> {}, brs |-> {b}],
       [reg |-> OnBranch(b), dirs |-> {}, brs |-> {b}],
       [reg |-> NoReg, dirs |-> {p}, brs |-> {}]}

InitSolve ==
  /\ \E left \in [Issues -> UNION {SolveLeft(i) : i \in Issues}] :
       /\ \A i \in Issues : left[i] \in SolveLeft(i)
       /\ registry = [p \in SolvePaths \cup {RootPath} |->
                        IF p = RootPath THEN OnBranch(MainBranch)
                        ELSE IF p.s = 1 THEN left[p.n].reg ELSE NoReg]
       /\ dirs = {RootPath} \cup UNION {left[i].dirs : i \in Issues}
       /\ branches = {MainBranch} \cup UNION {left[i].brs : i \in Issues}
  /\ wts = <<>>
  /\ pc = "idle"
  /\ RunInit

\* the issues of a run, before getIssue has given their titles
Pending(is) == [k \in 1..Len(is) |-> Worktree(NoPath, NoBranch, is[k])]

\* claude-issue <number>: solveCommand(issueNumber)
SolveBegin ==
  /\ pc = "idle"
  /\ \E i \in Issues :
       /\ targets' = Pending(<<i>>)
       /\ result' = Result("solve", i, "running", FALSE)
  /\ idx' = 1
  /\ pc' = "solve_getIssue"
  /\ wts' = <<>>
  /\ wstat' = <<>>
  /\ choices' = <<>>
  /\ calls' = <<>>
  /\ reports' = <<>>
  /\ UNCHANGED git
  /\ UNCHANGED script

\* selectCommand: the checkbox answer, in the order of the list of open issues
SelectBegin ==
  /\ pc = "idle"
  /\ \E S \in SUBSET Issues :
       LET issueNumbers == [k \in 1..Cardinality(S) |->
                              CHOOSE i \in S : Cardinality({j \in S : j < i}) = k - 1]
       IN  IF Len(issueNumbers) = 0
           THEN /\ targets' = <<>>
                /\ idx' = 0
                /\ pc' = "done"
                /\ result' = Result("select", 0, "noneSelected", FALSE)
           ELSE /\ targets' = Pending(issueNumbers)
                /\ idx' = 1
                /\ pc' = "solve_getIssue"
                /\ result' = Result("select", 0, "running", FALSE)
  /\ wts' = <<>>
  /\ wstat' = <<>>
  /\ choices' = <<>>
  /\ calls' = <<>>
  /\ reports' = <<>>
  /\ UNCHANGED git
  /\ UNCHANGED script

\* process.exit(1): the process ends, whatever loop called solveCommand
ExitOne(report) ==
  /\ reports' = Append(reports, report)
  /\ Finish("exit1")

\* getIssue, slugify(issue.title), branchName, worktreePath; git fetch origin
\* <base>, whose failure is a warning
SolveGetIssue ==
  /\ pc = "solve_getIssue"
  /\ \/ /\ ExitOne("notFound")
        /\ UNCHANGED <<targets, calls>>
     \/ \E title \in IssueTitles, fetched \in BOOLEAN :
          LET i == targets[idx].issueNumber
              s == SlugId(slugify(title))
          IN  /\ targets' = [targets EXCEPT
                               ![idx] = Worktree(ConvPath(i, s), IssueBranch(i, s), i)]
              /\ calls' = Append(calls, Call(IF fetched THEN "fetch" ELSE "fetchWarn",
                                             ConvPath(i, s)))
              /\ IF SolveAfter("fetch", fetched) = "exit"
                 THEN ExitOne("fetchFailed")
                 ELSE pc' = SolveAfter("fetch", fetched) /\ UNCHANGED <<reports, result>>
  /\ UNCHANGED <<git, wts, wstat, choices, idx>>
  /\ UNCHANGED script

\* if (fs.existsSync(worktreePath)) resume, else git worktree add on the
\* existing branch or with -b; a throw ends the process
SolveWorktree ==
  /\ pc = "solve_worktree"
  /\ LET t == targets[idx] IN
       IF WorktreeExists(t.path, dirs)
       THEN /\ calls' = Append(calls, Call("resume", t.path))
            /\ pc' = "solve_runner"
            /\ UNCHANGED <<git, reports, result>>
       ELSE LET attach == branchExists(t.branch, branches) IN
            /\ calls' = Append(calls, Call(IF attach THEN "attach" ELSE "create", t.path))
            /\ \E o \in WorktreeAdd(registry, dirs, branches, t.path, t.branch, ~attach) :
                 /\ Apply(o)
                 /\ IF SolveAfter("add", o.ok) = "exit"
                    THEN ExitOne("addFailed")
                    ELSE pc' = SolveAfter("add", o.ok) /\ UNCHANGED <<reports, result>>
  /\ UNCHANGED <<wts, wstat, choices, targets, idx>>
  /\ UNCHANGED script

\* copyEnvFiles(projectRoot, worktreePath); symlinkNodeModules(...)
SolveSetup ==
  /\ pc = "solve_setup"
  /\ calls' = calls \o <<Call("copyEnv", targets[idx].path),
                         Call("symlink", targets[idx].path)>>
  /\ pc' = "solve_runner"
  /\ UNCHANGED <<git, wts, wstat, choices, targets, idx, reports, result>>
  /\ UNCHANGED script

\* the prompt file, the runner script, openInNewTerminal; then solveCommand
\* returns, to select's loop or to the end of the process
SolveRunner ==
  /\ pc = "solve_runner"
  /\ calls' = Append(calls, Call("open", targets[idx].path))
  /\ reports' = Append(reports, "started")
  /\ IF idx < Len(targets)
     THEN idx' = idx + 1 /\ pc' = "solve_getIssue" /\ UNCHANGED result
     ELSE idx' = idx /\ Finish("complete")
  /\ UNCHANGED <<git, wts, wstat, choices, targets>>
  /\ UNCHANGED script

solveCommand == SolveGetIssue \/ SolveWorktree \/ SolveSetup \/ SolveRunner

NextSolve == SolveBegin \/ SelectBegin \/ solveCommand \/ Exit

SpecSolve == InitSolve /\ [][NextSolve]_vars

\* ========== the lifecycle: solve, the PR merged on the host, clean --merged

\* the number of issue worktrees the lifecycle keeps at a time
MaxWorktrees == 2

\* a repository in which no issue has been worked on
InitLife ==
  /\ registry = [p \in SolvePaths \cup {RootPath} |->
                   IF p = RootPath THEN OnBranch(MainBranch) ELSE NoReg]
  /\ dirs = {RootPath}
  /\ branches = {MainBranch}
  /\ wts = <<>>
  /\ pc = "idle"
  /\ RunInit

\* the git and filesystem operations of the teardown step succeed
OperationsSucceed ==
  CASE pc = "merged_remove" ->
         calls' # calls =>
           /\ registry'[targets[idx].path] = NoReg
           /\ targets[idx].path \notin dirs'
    [] pc = "merged_rm" -> targets[idx].path \notin dirs'
    [] pc \in {"merged_prune", "merged_final"} ->
         \A q \in DOMAIN registry : (q \notin dirs' /\ q # RootPath) => registry'[q] = NoReg
    [] pc = "merged_branch" -> targets[idx].branch \notin branches'
    [] OTHER -> TRUE

LifeCleanMerged == cleanMergedCommand /\ OperationsSucceed

\* solve, while fewer than MaxWorktrees issue worktrees exist
LifeSolve == SolveBegin /\ Cardinality(dirs \ {RootPath}) < MaxWorktrees

NextLife == LifeSolve \/ solveCommand \/ LifeCleanMerged \/ Exit

SpecLife == InitLife /\ [][NextLife]_vars

\* ============== the status fetch of clean --all and clean --merged, by step

\* a query that was issued and has not settled; a PR query that is not yet
\* issued because the callback still awaits the issue query
InFlight == "pending"
Unasked == "unasked"

\* what `gh issue view <n> --json state` and `gh pr list --head <b> --state all`
\* can give: a failure of the call, an empty list, or a state
IssueAnswers == {"error", "open", "closed"}
PRAnswers == {"error", "none", "open", "closed", "merged"}

\* the failure is handed on
getIssueStatusAsyncBroken(ans) == ans

\* try { ... return {state} } catch { return null }
getIssueStatusAsync(ans) == IF ans = "error" THEN Null ELSE ans

\* try { if (data.length === 0) return null; return {state} } catch { return null }
getPRForBranchAsync(ans) == IF ans \in {"error", "none"} THEN Null ELSE ans

\* resolves with the first result
AllSettledBroken(ws) ==
  \E k \in 1..Len(ws) : ws[k].issueStatus # InFlight /\ ws[k].prStatus \notin {InFlight, Unasked}

\* await Promise.all(...): every callback has returned its record
AllSettled(ws) ==
  \A k \in 1..Len(ws) : ws[k].issueStatus # InFlight /\ ws[k].prStatus \notin {InFlight, Unasked}

\* the record a callback of the map is building, with what the two calls gave
Fetching(wt, is, pr, issueAnswer, prAnswer) ==
  [path |-> wt.path, branch |-> wt.branch, issueNumber |-> wt.issueNumber,
   issueStatus |-> is, prStatus |-> pr, issueAnswer |-> issueAnswer, prAnswer |-> prAnswer]

\* worktrees.map(async (wt) => ...): every callback runs to its first await
Issued(ws) == [k \in 1..Len(ws) |-> Fetching(ws[k], InFlight, Unasked, "", "")]

\* per issue: nothing, a worktree on its branch, a worktree whose folder was
\* deleted by hand, or a folder alone
InitFetch ==
  /\ registry \in [MainPaths \cup {RootPath} ->
                     {NoReg, OnBranch(MainBranch)} \cup {OnBranch(b) : b \in MainBranches}]
  /\ \A p \in MainPaths : registry[p] \in {NoReg, OnBranch(IssueBranch(p.n, 1))}
  /\ RegistryConsistent(registry)
  /\ dirs \in {ds \cup {RootPath} : ds \in SUBSET MainPaths}
  /\ branches = {MainBranch} \cup BranchesOf(registry)
  /\ wts = <<>>
  /\ pc = "idle"
  /\ RunInit

\* a discovery that prunes the registrations whose folder is gone
FetchBeginBroken(name, fetchPc) ==
  /\ pc = "idle"
  /\ \E ws \in {getIssueWorktrees(registry, dirs)} :
       /\ wts' = ws
       /\ IF Len(ws) = 0
          THEN /\ wstat' = <<>>
               /\ pc' = "done"
               /\ result' = Result(name, 0, "noWorktrees", FALSE)
          ELSE /\ wstat' = Issued(ws)
               /\ pc' = fetchPc
               /\ result' = Result(name, 0, "running", FALSE)
  /\ targets' = <<>>
  /\ idx' = 0
  /\ calls' = <<>>
  /\ reports' = <<>>
  /\ choices' = <<>>
  /\ registry' = [p \in DOMAIN registry |-> IF p \in dirs THEN registry[p] ELSE NoReg]
  /\ UNCHANGED <<dirs, branches>>
  /\ UNCHANGED script

\* cleanAllCommand / cleanMergedCommand up to the start of Promise.all
FetchBegin(name, fetchPc) ==
  /\ pc = "idle"
  /\ \E ws \in {getIssueWorktrees(registry, dirs)} :
       /\ wts' = ws
       /\ IF Len(ws) = 0
          THEN /\ wstat' = <<>>
               /\ pc' = "done"
               /\ result' = Result(name, 0, "noWorktrees", FALSE)
          ELSE /\ wstat' = Issued(ws)
               /\ pc' = fetchPc
               /\ result' = Result(name, 0, "running", FALSE)
  /\ targets' = <<>>
  /\ idx' = 0
  /\ calls' = <<>>
  /\ reports' = <<>>
  /\ choices' = <<>>
  /\ UNCHANGED git
  /\ UNCHANGED script

\* issueStatus: await getIssueStatusAsync(...) settles for one worktree; its
\* callback goes on to wt.branch ? await getPRForBranchAsync(wt.branch) : null
IssueSettled ==
  /\ pc \in {"all_fetch", "merged_fetch"}
  /\ \E k \in 1..Len(wstat), ans \in IssueAnswers :
       /\ wstat[k].issueStatus = InFlight
       /\ wstat' = [wstat EXCEPT
                      ![k].issueStatus = getIssueStatusAsync(ans),
                      ![k].issueAnswer = ans,
                      ![k].prStatus = IF wstat[k].branch # NoBranch THEN InFlight ELSE Null]
  /\ UNCHANGED <<git, wts, pc, choices, targets, idx, calls, reports, result>>
  /\ UNCHANGED script

\* prStatus: await getPRForBranchAsync(wt.branch) settles for one worktree
PRSettled ==
  /\ pc \in {"all_fetch", "merged_fetch"}
  /\ \E k \in 1..Len(wstat), ans \in PRAnswers :
       /\ wstat[k].prStatus = InFlight
       /\ wstat' = [wstat EXCEPT ![k].prStatus = getPRForBranchAsync(ans),
                                 ![k].prAnswer = ans]
  /\ UNCHANGED <<git, wts, pc, choices, targets, idx, calls, reports, result>>
  /\ UNCHANGED script

\* Promise.all resolves: the choices of clean --all, the filter of clean --merged
FetchSettled ==
  /\ pc \in {"all_fetch", "merged_fetch"}
  /\ AllSettled(wstat)
  /\ IF pc = "all_fetch"
     THEN choices' = BuildChoices(wstat) /\ pc' = "all_prompt"
     ELSE choices' = choices /\ pc' = "merged_filter"
  /\ UNCHANGED <<git, wts, wstat, targets, idx, calls, reports, result>>
  /\ UNCHANGED script

NextFetch ==
  \/ FetchBegin("cleanAll", "all_fetch")
  \/ FetchBegin("cleanMerged", "merged_fetch")
  \/ IssueSettled
  \/ PRSettled
  \/ FetchSettled
  \/ CleanAllSelect
  \/ CleanAllClose
  \/ CleanAllRemove
  \/ CleanAllForceDelete
  \/ CleanAllPrune
  \/ CleanAllBranch
  \/ CleanAllCheck
  \/ CleanAllFinalPrune
  \/ CleanMergedFilter
  \/ CleanMergedClose
  \/ CleanMergedRemove
  \/ CleanMergedForceDelete
  \/ CleanMergedPrune
  \/ CleanMergedBranch
  \/ CleanMergedCheck
  \/ CleanMergedFinalPrune
  \/ Exit

SpecFetch == InitFetch /\ [][NextFetch]_vars

\* ------------------ clean --all over the worktrees solve leaves of an issue

\* the worktrees solve has created: at most MaxWorktrees, of the issues under
\* the titles they had (an issue whose title changed has two)
InitSelect ==
  /\ \E made \in SUBSET {ConvPath(i, s) : i \in Issues, s \in {1, 2}} :
       /\ Cardinality(made) <= MaxWorktrees
       /\ registry = [p \in SolvePaths \cup {RootPath} |->
                        IF p = RootPath THEN OnBranch(MainBranch)
                        ELSE IF p \in made THEN OnBranch(IssueBranch(p.n, p.s))
                        ELSE NoReg]
       /\ dirs = {RootPath} \cup made
       /\ branches = {MainBranch} \cup {IssueBranch(p.n, p.s) : p \in made}
  /\ wts = <<>>
  /\ pc = "idle"
  /\ RunInit

NextSelect ==
  \/ FetchBegin("cleanAll", "all_fetch")
  \/ IssueSettled
  \/ PRSettled
  \/ FetchSettled
  \/ CleanAllSelect
  \/ CleanAllClose
  \/ CleanAllRemove
  \/ CleanAllForceDelete
  \/ CleanAllPrune
  \/ CleanAllBranch
  \/ CleanAllCheck
  \/ CleanAllFinalPrune
  \/ Exit

SpecSelect == InitSelect /\ [][NextSelect]_vars

\* ================================================================== claims

TeardownOps == {"close", "remove", "rm", "prune", "branch", "check"}

\* the calls of one worktree's teardown come in the order of rank
OrderedBy(rank(_)) ==
  \A k, l \in 1..Len(calls) :
    (k < l /\ calls[k].path = calls[l].path
       /\ calls[k].op \in TeardownOps /\ calls[l].op \in TeardownOps)
      => rank(calls[k].op) < rank(calls[l].op)

\* clean --all, clean --merged and merge delete the branch before the final
\* directory check; in clean <issue> the check comes before the branch deletion
CodeRank(op) ==
  IF result.name = "clean"
  THEN CASE op = "close" -> 1 [] op = "remove" -> 2 [] op = "rm" -> 3
         [] op = "prune" -> 4 [] op = "check" -> 5 [] op = "branch" -> 6
  ELSE CASE op = "close" -> 1 [] op = "remove" -> 2 [] op = "rm" -> 3
         [] op = "prune" -> 4 [] op = "branch" -> 5 [] op = "check" -> 6

Attempted(op, p) == \E k \in 1..Len(calls) : calls[k] = Call(op, p)

BulkFinished ==
  /\ result.name \in {"cleanAll", "cleanMerged"}
  /\ \/ pc \in {"all_final", "merged_final"}
     \/ pc = "done" /\ result.outcome \in {"complete", "error"}

\* C4: whatever fails, every targeted worktree of clean --all and clean
\* --merged gets its window close, prune and final check attempted, its branch
\* deletion when it has a branch, the forced delete when its directory is
\* still there, and the registration removal when it is still a registered
\* worktree with a directory.
C4_FailureIsolation ==
  BulkFinished =>
    /\ Len(reports) = Len(targets)
    /\ \A j \in 1..Len(targets) :
         LET t == targets[j] IN
         /\ Attempted("close", t.path)
         /\ Attempted("prune", t.path)
         /\ Attempted("check", t.path)
         /\ t.branch # NoBranch => Attempted("branch", t.path)
         /\ t.path \in dirs => Attempted("rm", t.path)
         /\ (t.path \in dirs /\ t.branch # NoBranch /\ registry[t.path] # NoReg)
              => Attempted("remove", t.path)

\* two worktrees were targeted, the directory of the first could not be removed,
\* and the second was still cleaned
C4_Witness ==
  /\ BulkFinished
  /\ pc = "done"
  /\ Len(targets) = 2
  /\ reports = <<"warn", "succeed">>
  /\ targets[2].branch \notin branches
  /\ targets[2].branch # NoBranch

PathsOf(ws) == {ws[k].path : k \in 1..Len(ws)}

CountCalls(op, p) == Cardinality({k \in 1..Len(calls) : calls[k] = Call(op, p)})

InMergedTeardown ==
  /\ result.name = "cleanMerged"
  /\ pc \notin {"idle", "merged_filter"}
  /\ targets # <<>>

C6_PreCheckedAsStated ==
  pc = "all_prompt" =>
    \A k \in 1..Len(choices) :
      choices[k].checked <=> (wstat[k].prStatus = "merged" \/ wstat[k].branch = NoBranch)

\* C6 amended: exactly the worktrees with a merged PR are pre-checked; an
\* orphaned folder, like a worktree with an open or closed PR, is not.
C6_PreChecked ==
  pc = "all_prompt" =>
    /\ Len(choices) = Len(wstat)
    /\ \A k \in 1..Len(choices) :
         /\ choices[k].value = wstat[k].issueNumber
         /\ choices[k].checked <=> wstat[k].prStatus = "merged"
         /\ wstat[k].branch = NoBranch => ~choices[k].checked

\* the list shows a merged worktree, checked, and an orphaned folder, unchecked
C6_Witness ==
  /\ pc = "all_prompt"
  /\ Len(choices) = 2
  /\ \E k, l \in 1..2 :
       /\ wstat[k].prStatus = "merged" /\ choices[k].checked
       /\ wstat[l].branch = NoBranch /\ ~choices[l].checked

\* C7: the label is decided by the first of: empty branch (orphaned folder),
\* the PR state (merged, open, closed), the issue state (closed, open), Unknown.
C7_LabelPriority ==
  pc = "labelled" =>
    LET w == wstat[1]
        l == choices[1].name
    IN  /\ w.branch = NoBranch => l = "orphaned folder"
        /\ (w.branch # NoBranch /\ w.prStatus = "merged") => l = "PR merged"
        /\ (w.branch # NoBranch /\ w.prStatus = "open") => l = "PR open"
        /\ (w.branch # NoBranch /\ w.prStatus = "closed") => l = "PR closed"
        /\ (w.branch # NoBranch /\ w.prStatus = Null /\ w.issueStatus = "closed")
             => l = "Issue closed"
        /\ (w.branch # NoBranch /\ w.prStatus = Null /\ w.issueStatus = "open")
             => l = "Issue open"
        /\ (w.branch # NoBranch /\ w.prStatus = Null /\ w.issueStatus = Null)
             => l = "Unknown"

\* a worktree with a merged PR and a closed issue is labelled by the PR
C7_Witness ==
  /\ pc = "labelled"
  /\ wstat[1].branch # NoBranch
  /\ wstat[1].prStatus = "merged"
  /\ wstat[1].issueStatus = "closed"
  /\ choices[1].name = "PR merged"

\* C8: clean <issue> for an issue of which no directory, registration or
\* branch is left changes nothing and returns having found nothing.
C8_TeardownIdempotent ==
  [][\A i \in Issues :
       (/\ pc = "idle"
        /\ IssueGone(i)
        /\ pc' # "idle"
        /\ result'.name = "clean"
        /\ result'.issue = i)
         => /\ UNCHANGED git
            /\ pc' = "done"
            /\ result'.outcome = "notfound"
            /\ calls' = <<>>
    ]_vars

\* the second clean of an issue that the first clean removed completely
C8_Witness ==
  /\ pc = "done"
  /\ result.name = "clean"
  /\ result.outcome = "notfound"
  /\ result.again

\* C9: re-invoking clean for an issue, with git and the file system doing what
\* they are asked, eventually leaves no directory, no registration and no
\* local branch of that issue.
C9_Recovery ==
  \A i \in Issues : (result.issue = i) ~> IssueGone(i)

\* C10: in every per-worktree teardown a prune has been attempted before the
\* branch deletion is attempted.
C10_PruneBeforeBranch ==
  \A k \in 1..Len(calls) :
    (calls[k].op = "branch" /\ calls[k].path # NoPath)
      => \E j \in 1..(k - 1) : calls[j] = Call("prune", calls[k].path)

\* the number the last line of clean --all / clean --merged prints:
\* selectedWorktrees.length / toClean.length
SummaryCleaned == Len(targets)

\* the worktrees whose spinner ended with succeed
FullyCleaned == Cardinality({k \in 1..Len(reports) : reports[k] = "succeed"})

\* C11: a worktree whose directory is still there after its teardown was
\* reported with a warning, and the closing summary of a bulk clean counts as
\* cleaned only the worktrees that were fully cleaned.
C11_FinalVerification ==
  result.name \in {"cleanAll", "cleanMerged"} =>
    /\ \A k \in 1..Len(reports) : targets[k].path \in dirs => reports[k] = "warn"
    /\ (pc = "done" /\ result.outcome = "complete") => SummaryCleaned = FullyCleaned

\* C12: for a worktree without a branch (an orphaned folder) no git worktree
\* removal and no branch deletion is attempted, its directory goes only by the
\* forced deletion, and a branch deletion is attempted only for a worktree
\* whose branch name is known.
C12_OrphanTeardown ==
  /\ \A k \in 1..Len(calls) :
       calls[k].op \in {"remove", "branch"} =>
         \E j \in 1..Len(targets) :
           targets[j].path = calls[k].path /\ targets[j].branch # NoBranch
  /\ \A j \in 1..Len(targets) :
       (targets[j].branch = NoBranch /\ targets[j].path \notin dirs
          /\ (result.name = "clean" \/ j <= idx))
         => Attempted("rm", targets[j].path)

\* a finished clean <issue> of an orphaned folder: close, forced deletion,
\* prune and check, and the folder is gone
C12_Witness ==
  /\ pc = "done"
  /\ result.name = "clean"
  /\ result.outcome = "complete"
  /\ targets[1].branch = NoBranch
  /\ targets[1].path \notin dirs
  /\ Len(calls) = 4
  /\ calls[2] = Call("rm", targets[1].path)

\* the calls of the teardown of the worktree at p that come before call k
TeardownBefore(op, p, k) == \E j \in 1..(k - 1) : calls[j] = Call(op, p)

\* C13: in merge, the host is asked to merge a PR only after the local
\* teardown for that PR's branch was attempted (prune and branch deletion
\* always, the window close when the branch carries an issue number), and no
\* teardown call for that PR follows the merge request.
C13_TeardownBeforeMerge ==
  result.name = "merge" =>
    \A k \in 1..Len(calls) :
      calls[k].op = "merge" =>
        /\ TeardownBefore("prune", calls[k].path, k)
        /\ TeardownBefore("branch", calls[k].path, k)
        /\ \A t \in 1..Len(targets) :
             (targets[t].path = calls[k].path /\ targets[t].issueNumber # 0)
               => TeardownBefore("close", calls[k].path, k)
        /\ \A j \in (k + 1)..Len(calls) : calls[j].path # calls[k].path

\* a finished merge of two PRs, the first with its worktree on disk
C13_Witness ==
  /\ pc = "done"
  /\ result = Result("merge", 0, "complete", FALSE)
  /\ Len(targets) = 2
  /\ reports = <<"merged", "merged">>
  /\ calls[2] = Call("remove", targets[1].path)
  /\ calls[Len(calls)] = Call("merge", targets[2].path)

\* merged++ / failed++
CountReports(r) == Cardinality({k \in 1..Len(reports) : reports[k] = r})

\* C14: a failed merge does not end the loop: when merge returns, every
\* selected PR was asked to merge exactly once and merged + failed is the
\* number of selected PRs.
C14_MergeFailureIsolation ==
  (result.name = "merge" /\ pc = "done" /\ result.outcome = "complete") =>
    /\ \A t \in 1..Len(targets) : CountCalls("merge", targets[t].path) = 1
    /\ CountReports("merged") + CountReports("failed") = Len(targets)

\* the first of two selected PRs failed to merge and the second was merged
C14_Witness ==
  /\ pc = "done"
  /\ result = Result("merge", 0, "complete", FALSE)
  /\ reports = <<"failed", "merged">>

\* C16: no command deletes a local branch that is not an issue branch or
\* removes a directory that is not a {projectName}-issue-{number}- sibling.
C16_OnlyOwnNames ==
  [][/\ \A b \in branches \ branches' : b.kind = "issue"
     /\ \A p \in dirs \ dirs' : p.kind = "conv"]_vars

\* C15: an open PR is pre-selected in the merge list exactly when its review
\* decision is approved and the host reports it as mergeable; an approved PR
\* whose mergeability the host has not computed is not pre-selected.
C15_Preselection ==
  pc = "preselected" =>
    /\ Len(choices) = Len(wstat)
    /\ \A k \in 1..Len(choices) :
         /\ choices[k].value = wstat[k]
         /\ choices[k].checked <=> (/\ wstat[k].reviewDecision = "APPROVED"
                                    /\ wstat[k].mergeable = "MERGEABLE")

\* a list with a pre-selected PR and with an approved PR without reported
\* conflicts that is not pre-selected
C15_Witness ==
  /\ pc = "preselected"
  /\ Len(choices) = 2
  /\ choices[1].checked
  /\ wstat[2].reviewDecision = "APPROVED"
  /\ wstat[2].mergeable = "UNKNOWN"
  /\ ~choices[2].checked

\* C15 as stated: pre-selected exactly when approved and no conflicts are
\* reported for the PR
C15_AsStated ==
  pc = "preselected" =>
    \A k \in 1..Len(choices) :
      choices[k].checked <=> (/\ wstat[k].reviewDecision = "APPROVED"
                              /\ ~choices[k].statusTag.conflicts)

\* C19: for one issue branch the runner creates a new PR only when no PR
\* exists for that head, whatever the state of an existing PR, so at most one
\* PR exists per branch.
C19_NoDuplicatePR ==
  [][Len(prs') > Len(prs) => Len(prs) = 0]_vars

\* C17: when solve finds the computed worktree path on disk it creates no
\* worktree and no branch and goes on to the runner; the environment files
\* are copied and the dependency directory linked only after the worktree was
\* added in the same invocation, never for a path that was resumed.
C17_IdempotentResume ==
  [][/\ (pc = "solve_worktree" /\ targets[idx].path \in dirs)
          => /\ UNCHANGED git
             /\ calls' = Append(calls, Call("resume", targets[idx].path))
             /\ pc' = "solve_runner"
     /\ \A k \in 1..Len(calls') :
          /\ calls'[k].op \in {"copyEnv", "symlink"}
               => \E j \in 1..(k - 1) :
                    /\ calls'[j].op \in {"attach", "create"}
                    /\ calls'[j].path = calls'[k].path
          /\ calls'[k].op = "resume"
               => \A j \in 1..Len(calls') :
                    calls'[j].path = calls'[k].path
                      => calls'[j].op \in {"fetch", "fetchWarn", "resume", "open"}
    ]_vars

\* a batch that resumed its first issue and created the worktree of its second
C17_Witness ==
  /\ pc = "done"
  /\ result = Result("select", 0, "complete", FALSE)
  /\ Len(targets) = 2
  /\ calls = <<Call("fetch", targets[1].path), Call("resume", targets[1].path),
               Call("open", targets[1].path),
               Call("fetch", targets[2].path), Call("create", targets[2].path),
               Call("copyEnv", targets[2].path), Call("symlink", targets[2].path),
               Call("open", targets[2].path)>>

\* C18: after any sequence of solve invocations run one at a time, at most
\* one worktree (registration or directory) exists per issue number, also
\* when the issue's title differs between the invocations.
C18_OneWorktreePerIssue ==
  \A i \in Issues :
    Cardinality({p \in SolvePaths :
                   /\ p \in DOMAIN registry
                   /\ p.n = i
                   /\ (p \in dirs \/ registry[p] # NoReg)}) <= 1

\* C20: in a batch of select, a failed worktree creation for one issue does
\* not keep the other selected issues from being processed by solve.
C20_BatchIsolation ==
  (/\ result.name = "select"
   /\ pc = "done"
   /\ \E k \in 1..Len(reports) : reports[k] = "addFailed")
    => Len(reports) = Len(targets)

\* C21: when git worktree add fails in solve the invocation ends there: the
\* environment setup and the terminal launch are only ever performed for a
\* worktree that is on disk, and after a failed creation the process has
\* exited with code 1.
C21_CreationFailureFatal ==
  result.name \in {"solve", "select"} =>
    /\ \A j \in 1..Len(calls) :
         calls[j].op \in {"copyEnv", "symlink", "open"} => calls[j].path \in dirs
    /\ (/\ Len(calls) > 0
        /\ calls[Len(calls)].op \in {"attach", "create"}
        /\ calls[Len(calls)].path \notin dirs)
         => pc = "done" /\ result.outcome = "exit1"

\* a solve whose worktree creation failed: nothing follows the creation call
C21_Witness ==
  /\ pc = "done"
  /\ result.name = "solve"
  /\ result.outcome = "exit1"
  /\ reports = <<"addFailed">>
  /\ Len(calls) = 2
  /\ calls[2] = Call("create", targets[1].path)
  /\ targets[1].path \notin dirs

\* C22: a failed fetch of the base branch does not end solve: after it the
\* invocation is at the create-or-attach step, and no invocation ever ends
\* because of the fetch.
C22_FetchNotFatal ==
  result.name \in {"solve", "select"} =>
    /\ \A k \in 1..Len(reports) : reports[k] # "fetchFailed"
    /\ (Len(calls) > 0 /\ calls[Len(calls)].op \in {"fetch", "fetchWarn"})
         => /\ pc = "solve_worktree"
            /\ result.outcome = "running"
            /\ targets[idx].path = calls[Len(calls)].path

\* a solve that created its worktree and started the runner after a failed fetch
C22_Witness ==
  /\ pc = "done"
  /\ result.name = "solve"
  /\ result.outcome = "complete"
  /\ calls = <<Call("fetchWarn", targets[1].path), Call("create", targets[1].path),
               Call("copyEnv", targets[1].path), Call("symlink", targets[1].path),
               Call("open", targets[1].path)>>
  /\ registry[targets[1].path] = OnBranch(targets[1].branch)

\* C23: when solve creates a worktree and the local branch exists, the
\* worktree is attached to it and the set of branches does not change;
\* otherwise one branch, the computed one, is created with the worktree;
\* each creation makes exactly one of the two calls.
C23_CreateOrAttach ==
  [][(pc = "solve_worktree" /\ targets[idx].path \notin dirs) =>
       LET t == targets[idx]
           made == pc' = "solve_setup"
       IN  /\ Len(calls') = Len(calls) + 1
           /\ calls'[Len(calls')].path = t.path
           /\ calls'[Len(calls')].op = IF t.branch \in branches THEN "attach" ELSE "create"
           /\ made => registry'[t.path] = OnBranch(t.branch) /\ t.path \in dirs'
           /\ branches' = IF made THEN branches \cup {t.branch} ELSE branches
           /\ t.branch \in branches => branches' = branches
    ]_vars

\* a solve that attached its worktree to the branch an earlier run left
C23_Witness ==
  /\ pc = "done"
  /\ result.name = "solve"
  /\ result.outcome = "complete"
  /\ Len(calls) = 5
  /\ calls[2] = Call("attach", targets[1].path)
  /\ registry[targets[1].path] = OnBranch(targets[1].branch)

\* C24: in clean --all and clean --merged the issue queries of all discovered
\* worktrees are in flight together when the fetch starts, the command leaves
\* the fetch only when the issue and PR status of every discovered worktree is
\* collected, and no call is made and nothing in git changes before that.
C24_StatusBeforeTeardown ==
  [][/\ (pc = "idle" /\ pc' \in {"all_fetch", "merged_fetch"})
          => /\ Len(wstat') = Len(wts')
             /\ \A k \in 1..Len(wstat') : wstat'[k].issueStatus = InFlight
     /\ (pc \in {"all_fetch", "merged_fetch"} /\ pc' \notin {"all_fetch", "merged_fetch"})
          => /\ Len(wstat) = Len(wts)
             /\ \A k \in 1..Len(wstat) :
                  /\ wstat[k].path = wts[k].path
                  /\ wstat[k].issueStatus \in IssueStates
                  /\ wstat[k].prStatus \in PRStates
     /\ (calls' # calls \/ registry' # registry \/ dirs' # dirs \/ branches' # branches)
          => pc \notin {"idle", "all_fetch", "merged_fetch"}
    ]_vars

\* clean --merged tears down the first of two worktrees whose PRs are merged
C24_Witness ==
  /\ result.name = "cleanMerged"
  /\ pc = "merged_remove"
  /\ Len(wts) = 2
  /\ Len(targets) = 2
  /\ targets[1].prStatus = "merged"
  /\ calls = <<Call("close", targets[1].path)>>

\* C25: a failed issue or PR query gives null and never ends the command; a
\* worktree with a branch whose two queries failed is shown as Unknown.
C25_ReadPathsNeverFail ==
  /\ \A k \in 1..Len(wstat) :
       /\ wstat[k].issueStatus # "error"
       /\ wstat[k].prStatus # "error"
       /\ wstat[k].issueAnswer = "error" => wstat[k].issueStatus = Null
       /\ wstat[k].prAnswer = "error" => wstat[k].prStatus = Null
  /\ pc \in {"all_fetch", "merged_fetch", "all_prompt", "merged_filter"}
       => result.outcome = "running"
  /\ pc = "all_prompt" =>
       \A k \in 1..Len(wstat) :
         (/\ wstat[k].branch # NoBranch
          /\ wstat[k].issueAnswer = "error"
          /\ wstat[k].prAnswer = "error") => choices[k].name = "Unknown"

\* clean --all shows a worktree whose two queries failed next to a merged one
C25_Witness ==
  /\ pc = "all_prompt"
  /\ Len(wstat) = 2
  /\ wstat[1].branch # NoBranch
  /\ wstat[1].issueAnswer = "error"
  /\ wstat[1].prAnswer = "error"
  /\ choices[1].name = "Unknown"
  /\ choices[2].name = "PR merged"

C27_ExitCodes ==
  (pc = "done" /\ result.outcome # "interrupted") =>
    (ExitCode(result) = 1 <=> result.outcome \in {"exit1", "notfound"})

\* C28: the title "[Bug] Add dark mode support" gives the slug
\* add-dark-mode-support, so that solve names the branch
\* issue-{n}-add-dark-mode-support and the worktree
\* {project}-issue-{n}-add-dark-mode-support; and when clean --merged has
\* run to its end with its git and filesystem operations succeeding, no
\* directory, no registration and no local branch is left of a worktree
\* whose PR was merged.
C28_Lifecycle ==
  /\ slugify(<<"[", "B", "u", "g", "]", " ", "A", "d", "d", " ", "d", "a", "r",
             "k", " ", "m", "o", "d", "e", " ", "s", "u", "p", "p", "o", "r",
             "t">>)
       = <<"a", "d", "d", "-", "d", "a", "r", "k", "-", "m", "o", "d", "e",
         "-", "s", "u", "p", "p", "o", "r", "t">>
  /\ \A k \in 1..Len(calls) :
       calls[k].op = "create" =>
         /\ calls[k].path.kind = "conv"
         /\ SlugTexts[calls[k].path.s] \in {SlugTexts[1], SlugTexts[2]}
         /\ (registry[calls[k].path].kind # "none" =>
               registry[calls[k].path]
                 = OnBranch(IssueBranch(calls[k].path.n, calls[k].path.s)))
  /\ (pc = "done" /\ result.name = "cleanMerged" /\ result.outcome = "complete") =>
       \A k \in 1..Len(targets) :
         targets[k].prStatus = "merged" =>
           /\ targets[k].path \notin dirs
           /\ registry[targets[k].path] = NoReg
           /\ targets[k].branch \notin branches

\* clean --merged has torn down the merged worktree that solve created for
\* the title "[Bug] Add dark mode support"
C28_Witness ==
  /\ pc = "done" /\ result.name = "cleanMerged" /\ result.outcome = "complete"
  /\ \E k \in 1..Len(targets) :
       /\ targets[k].prStatus = "merged"
       /\ targets[k].branch = IssueBranch(targets[k].issueNumber, 1)
       /\ \E j \in 1..Len(calls) : calls[j] = Call("remove", targets[k].path)
       /\ \E j \in 1..Len(calls) : calls[j] = Call("branch", targets[k].path)

\* C29: when clean is invoked for an issue that has no worktree and no
\* folder, it offers the branch-only cleanup if a local branch
\* issue-{number}-... exists and otherwise returns having changed nothing;
\* answering the offer changes nothing but that one branch, which is gone
\* when the deletion is reported, and declining changes nothing.
C29_BranchOnlyCleanup ==
  [][/\ (/\ pc = "idle"
         /\ pc' # "idle"
         /\ result'.name = "clean"
         /\ \A p \in DOMAIN registry :
              ~(/\ registry[p].kind = "branch"
                /\ registry[p].branch.kind = "issue"
                /\ registry[p].branch.n = result'.issue)
         /\ \A d \in dirs : ~(d.kind = "conv" /\ d.n = result'.issue))
        => (/\ UNCHANGED git
            /\ IF \E b \in branches : b.kind = "issue" /\ b.n = result'.issue
               THEN /\ pc' = "clean_confirmBranch"
                    /\ Len(targets') = 1
                    /\ targets'[1].branch \in branches
                    /\ targets'[1].branch.kind = "issue"
                    /\ targets'[1].branch.n = result'.issue
               ELSE pc' = "done" /\ result'.outcome = "notfound")
     /\ (pc = "clean_confirmBranch")
        => (/\ UNCHANGED <<registry, dirs>>
            /\ branches' \in {branches, branches \ {targets[1].branch}}
            /\ (result'.outcome = "branchDeleted" <=> targets[1].branch \notin branches')
            /\ (result'.outcome = "cancelled" => branches' = branches))
    ]_vars

\* the branch-only cleanup was offered, confirmed, and has deleted the branch
C29_Witness ==
  /\ pc = "done" /\ result.name = "clean" /\ result.outcome = "branchDeleted"
  /\ calls = <<Call("branch", NoPath)>>
  /\ Len(targets) = 1 /\ targets[1].path = NoPath
  /\ targets[1].branch \notin branches

\* the position of a command's teardown step in its loop body; 0: pc is no
\* step of the loop of clean --all or clean --merged; 7: after the loop
PosOf(x) ==
  IF \E k \in 1..6 : CleanAllSteps[k] = x
  THEN CHOOSE k \in 1..6 : CleanAllSteps[k] = x
  ELSE IF \E k \in 1..6 : CleanMergedSteps[k] = x
  THEN CHOOSE k \in 1..6 : CleanMergedSteps[k] = x
  ELSE IF x \in {"all_final", "merged_final"} THEN 7 ELSE 0

StepDone(o, called, reported, next) ==
  [registry |-> o.registry, dirs |-> o.dirs, branches |-> o.branches,
   called |-> called, reported |-> reported, next |-> next]

\* the per-worktree teardown as one routine: what its k-th statement can do
\* for the record t in the git state (reg, ds, brs)
Routine(k, t, reg, ds, brs, more) ==
  LET same == GitState(reg, ds, brs, TRUE) IN
  CASE k = 1 -> {StepDone(same, <<Call("close", t.path)>>, <<>>, 2)}
    [] k = 2 -> IF t.branch # NoBranch /\ t.path \in ds
                THEN {StepDone(o, <<Call("remove", t.path)>>, <<>>, 3) :
                        o \in WorktreeRemove(reg, ds, brs, t.path, TRUE)}
                ELSE {StepDone(same, <<>>, <<>>, 3)}
    [] k = 3 -> IF t.path \in ds
                THEN {StepDone(o, <<Call("rm", t.path)>>, <<>>, 4) :
                        o \in ForceDelete(reg, ds, brs, t.path, TRUE)}
                ELSE {StepDone(same, <<>>, <<>>, 4)}
    [] k = 4 -> {StepDone(o, <<Call("prune", t.path)>>, <<>>, 5) :
                   o \in WorktreePrune(reg, ds, brs, TRUE)}
    [] k = 5 -> IF t.branch # NoBranch
                THEN {StepDone(o, <<Call("branch", t.path)>>, <<>>, 6) :
                        o \in BranchDelete(reg, ds, brs, t.branch, TRUE)}
                ELSE {StepDone(same, <<>>, <<>>, 6)}
    [] k = 6 -> {StepDone(same, <<Call("check", t.path)>>,
                          <<IF t.path \in ds THEN "warn" ELSE "succeed">>,
                          IF more THEN 1 ELSE 7)}

\* C30: the teardown steps of clean --all and of clean --merged are those of
\* one routine: at the same position, for the same record and git state,
\* each command can do exactly what the routine can do (the same call, the
\* same resulting state, the same report, the same next position).
C30_SameRoutine ==
  /\ [][PosOf(pc) \in 1..6 =>
          StepDone(GitState(registry', dirs', branches', TRUE),
                   SubSeq(calls', Len(calls) + 1, Len(calls')),
                   SubSeq(reports', Len(reports) + 1, Len(reports')),
                   PosOf(pc'))
            \in Routine(PosOf(pc), targets[idx], registry, dirs, branches,
                        idx < Len(targets))]_vars
  /\ [](PosOf(pc) \in 1..6 =>
          \A o \in Routine(PosOf(pc), targets[idx], registry, dirs, branches,
                           idx < Len(targets)) :
            ENABLED (/\ NextFetch
                     /\ registry' = o.registry
                     /\ dirs' = o.dirs
                     /\ branches' = o.branches
                     /\ calls' = calls \o o.called
                     /\ reports' = reports \o o.reported
                     /\ PosOf(pc') = o.next))

\* one of the two commands has torn down a registered worktree whose removal
\* failed and whose folder was then deleted
C30_Witness ==
  /\ pc = "done" /\ result.name \in {"cleanAll", "cleanMerged"}
  /\ result.outcome = "complete"
  /\ \E k \in 1..Len(targets) :
       /\ \E j \in 1..Len(calls) : calls[j] = Call("remove", targets[k].path)
       /\ \E j \in 1..Len(calls) : calls[j] = Call("rm", targets[k].path)
       /\ \E j \in 1..Len(calls) : calls[j] = Call("branch", targets[k].path)
       /\ targets[k].path \notin dirs

\* C31: slugify is idempotent: the slug of a slug is that slug.
C31_SlugifyIdempotent ==
  (app.fn = "slugify" /\ app.done) => slugify(app.value) = app.value

\* C32: the output of slugify has no leading and no trailing hyphen, also
\* when it was cut at 30 characters.
C32_NoEdgeHyphen ==
  (app.fn = "slugify" /\ app.done /\ Len(app.value) > 0) =>
    /\ app.value[1] # "-"
    /\ app.value[Len(app.value)] # "-"

\* C33: the output of slugify is at most 30 characters long and consists of
\* lowercase letters, digits and hyphens.
C33_SlugShape ==
  (app.fn = "slugify" /\ app.done) =>
    /\ Len(app.value) <= 30
    /\ \A k \in 1..Len(app.value) :
         app.value[k] \in {LowerCase[j] : j \in 1..26} \cup Digits \cup {"-"}

\* a title longer than 30 characters with capitals and brackets was cut
C33_Witness ==
  /\ app.fn = "slugify" /\ app.done
  /\ Len(app.args[1]) > 30
  /\ Len(app.value) = 30
  /\ \E k \in 1..Len(app.args[1]) : app.args[1][k] \in {"B", "[", "]"}

\* the text after its first n characters
DropFirst(text, n) == SubSeq(text, n + 1, Len(text))

\* C34: for two distinct issue numbers the derived branch names differ and
\* the derived worktree paths differ, whatever the titles (identical, or
\* different with the same slug); with identical titles the names are equal
\* before and after the issue number.
C34_NamesUnique ==
  (app.fn = "names" /\ app.done) =>
    LET n1 == app.args[1]
        n2 == app.args[3]
        b1 == app.value[1]
        b2 == app.value[3]
        p1 == app.value[2]
        p2 == app.value[4]
        lead == Len(ParentDir) + 1 + Len(ProjectName) + 1
    IN  /\ b1 # b2
        /\ p1 # p2
        /\ app.args[2] = app.args[4] =>
             /\ SubSeq(b1, 1, 6) = SubSeq(b2, 1, 6)
             /\ SubSeq(b1, 7, 6 + Len(Decimal(n1))) = Decimal(n1)
             /\ SubSeq(b2, 7, 6 + Len(Decimal(n2))) = Decimal(n2)
             /\ DropFirst(b1, 6 + Len(Decimal(n1))) = DropFirst(b2, 6 + Len(Decimal(n2)))
             /\ SubSeq(p1, 1, lead) = SubSeq(p2, 1, lead)
             /\ DropFirst(p1, lead) = b1
             /\ DropFirst(p2, lead) = b2

\* two different titles with the same slug, for the issues 1 and 12
C34_Witness ==
  /\ app.fn = "names" /\ app.done
  /\ app.args[1] = 1 /\ app.args[3] = 12
  /\ app.args[2] # app.args[4]
  /\ slugify(app.args[2]) = slugify(app.args[4])
  /\ Len(slugify(app.args[2])) > 0

\* C35: list calls listIssues with 0 when --all is given (also together with
\* --limit), with the given value when only --limit is given, and with 50
\* when neither is given.
C35_ListLimit ==
  (app.fn = "list" /\ app.done) =>
    LET options == app.args[1]
        passed == app.value[1]
    IN  /\ options.all => passed = Number(0)
        /\ (~options.all /\ options.limit # Undefined) => passed = options.limit
        /\ (~options.all /\ options.limit = Undefined) => passed = Number(50)

\* --all together with --limit 60
C35_Witness ==
  /\ app.fn = "list" /\ app.done
  /\ app.args[1] = [all |-> TRUE, limit |-> Number(60)]
  /\ app.value = <<Number(0)>>

\* the discovered records whose own entry of the list is ticked, in order
TickedRecords(ticked) ==
  LET RECURSIVE From(_)
      From(k) == IF k > Len(wts) THEN <<>>
                 ELSE (IF k \in ticked THEN <<wts[k]>> ELSE <<>>) \o From(k + 1)
  IN  From(1)

\* C36: clean --all tears down exactly the worktrees whose own entry the user
\* ticked: whatever set of entries is ticked, the worktrees the command goes
\* on to tear down are the records of those entries, also when two records
\* carry the same issue number.
C36_OnlyChecked ==
  pc = "all_prompt" =>
    \A ticked \in SUBSET (1..Len(choices)) \ {{}} :
      ENABLED (CleanAllSelect /\ targets' = TickedRecords(ticked))

\* C37: when the user declines the confirmation or selects nothing in clean,
\* clean --all or merge, the command has attempted no call (no window
\* closed, nothing removed, no PR merged) and has returned; and a step that
\* attempts no call leaves registrations, directories and branches as they
\* are.
C37_NoActionWithoutConfirmation ==
  /\ []((/\ result.name \in {"clean", "cleanAll", "merge"}
         /\ result.outcome \in {"cancelled", "noneSelected"})
        => (calls = <<>> /\ pc \in {"done", "idle"}))
  /\ [][calls' = calls => UNCHANGED git]_vars

\* the user selected PRs in merge and declined the confirmation
C37_Witness ==
  /\ pc = "done"
  /\ result.name = "merge" /\ result.outcome = "cancelled"
  /\ calls = <<>>

\* C38: the watcher enters create_pr only at a poll that is not its first
\* and at which HEAD differs from the HEAD of the poll before; create_pr
\* returns at once, changing nothing, when the branch has no commit ahead of
\* the base; after the assistant has ended the watcher is killed and the
\* script runs create_pr once more, which it leaves only with no commit
\* ahead or after a push or a PR creation was attempted.
C38_WatcherTrigger ==
  [][/\ (runner.watcher.pc = "poll" /\ runner'.watcher.pc = "count")
        => (/\ runner.watcher.last # NoCommit
            /\ runner.head # runner.watcher.last)
     /\ \A P \in RunnerProc :
          (runner[P].pc = "count" /\ runner'[P].pc # "count" /\ runner.head = 0)
            => (/\ runner'[P].pc = Return(P)
                /\ prs' = prs
                /\ runner'.pushed = runner.pushed
                /\ runner'.created = runner.created)
     /\ (runner.main.pc = "kill" /\ runner'.main.pc # "kill")
        => (runner'.watcher.killed /\ runner'.main.pc = "count")
     /\ (runner.main.pc = "count" /\ runner'.main.pc # "count" /\ runner.head > 0)
        => runner'.main.pc = "list"
     /\ (runner.main.pc = "list" /\ runner'.main.pc # "list")
        => runner'.main.pc \in {"push", "pushNew"}
     /\ (runner.main.pc # "end" /\ runner'.main.pc = "end")
        => \/ runner.main.pc = "count" /\ runner.head = 0
           \/ runner.main.pc \in {"push", "create"}
     /\ runner.watcher.killed
        => (/\ runner'.watcher.killed
            /\ runner'.watcher.pc \in {runner.watcher.pc, "dead"})
    ]_vars

\* the assistant committed and ended; the watcher was killed and the final
\* create_pr pushed the commits
C38_Witness ==
  /\ runner.main.pc = "end"
  /\ runner.watcher.killed
  /\ runner.watcher.pc = "dead"
  /\ runner.head = MaxCommits
  /\ runner.pushed = runner.head

\* C39: the review and fix loop of auto mode ends; it runs at most 3 reviews
\* and at most 2 fixes; it ends at once when no PR is found, when the review
\* status is APPROVED and when the status is anything but CHANGES_REQUESTED;
\* a fix is attempted only after CHANGES_REQUESTED in an iteration before
\* the third.
C39_AutoLoopTerminates ==
  /\ <>(runner.main.pc = "end")
  /\ [](/\ runner.ITERATION <= 3
        /\ runner.reviews <= 3
        /\ runner.fixes <= 2)
  /\ [][/\ (runner.main.pc = "get_pr_number" /\ runner'.main.pc # "get_pr_number")
           => IF runner'.PR_NUM THEN runner'.main.pc = "review" /\ HasOpenPR(prs)
              ELSE runner'.main.pc = "end"
        /\ (runner.main.pc = "get_review_status"
            /\ runner'.main.pc # "get_review_status")
           => (/\ runner'.REVIEW_STATUS # "CHANGES_REQUESTED" => runner'.main.pc = "end"
               /\ runner'.main.pc = "fix"
                    => (/\ runner'.REVIEW_STATUS = "CHANGES_REQUESTED"
                        /\ runner.ITERATION < 3))
        /\ runner'.fixes # runner.fixes => runner.main.pc = "fix"
        /\ runner'.reviews # runner.reviews => runner.main.pc = "review"
       ]_vars

\* three reviews asked for changes; two fixes were made; the loop has ended
C39_Witness ==
  /\ runner.main.pc = "end"
  /\ runner.ITERATION = 3
  /\ runner.reviews = 3
  /\ runner.fixes = 2
  /\ runner.REVIEW_STATUS = "CHANGES_REQUESTED"

====
